---- MODULE Spec2Model ----
(***************************************************************************)
(* A model of pysavime's schema objects and of the command strings they   *)
(* serialize to.                                                           *)
(*                                                                         *)
(* A Python str is a sequence of tokens.  Every punctuation character     *)
(* (space, comma, double quote, bar, colon, parentheses, semicolon, '#',   *)
(* '@') is a token of its own; a keyword, a name or a numeral is one       *)
(* token.  No name of the model holds a punctuation character and no two  *)
(* word tokens are ever adjacent, so two strings are equal exactly when    *)
(* their token sequences are.  String concatenation is \o.                 *)
(*                                                                         *)
(* A Python object is a record whose cls field is its class.              *)
(***************************************************************************)
EXTENDS Integers, Sequences, FiniteSets, TLC

VARIABLES element, query, raised, called, converted, raised_args, available_converters,
          effects, splitter

vars == <<element, query, raised, called, converted, raised_args, available_converters,
          effects, splitter>>

(***************************************************************************)
(* Bounds of the model.                                                    *)
(***************************************************************************)
MaxSpecs == 2
MaxValues == 2
MaxInt == 2
MaxArgs == 8
MaxRows == 3
RecursionLimit == 3
MaxBlocks == 2
MaxCalls == 2
MaxDimLength == 5
MaxRank == 3
MaxCuts == 3
MaxSize == 27

(***************************************************************************)
(* Python values.                                                          *)
(***************************************************************************)
NoneVal == [cls |-> "NoneType"]

PyStr(s) == [cls |-> "str", value |-> s]

Ok(v) == [raised |-> "none", value |-> v]

Raise(e) == [raised |-> e, value |-> NoneVal]

PyInt(n) == [cls |-> "int", value |-> n]

\* str(v): the numeral of an int, a str unchanged
str(v) == IF v.cls = "int" THEN ToString(v.value) ELSE v.value

\* An int field formatted into an f-string.
int_str(n) == ToString(n)

\* sep.join(parts)
RECURSIVE join(_, _)
join(sep, parts) ==
  IF parts = <<>> THEN <<>>
  ELSE IF Len(parts) = 1 THEN parts[1]
  ELSE parts[1] \o sep \o join(sep, Tail(parts))

\* All sequences over S of length at most n.
SeqsUpTo(S, n) == UNION {[1..k -> S] : k \in 0..n}

SavimeSupportedTypes ==
  { [name |-> "INT32", value |-> "int32"],
    [name |-> "FLOAT", value |-> "float"],
    [name |-> "CHAR", value |-> "char"] }

TypeNamed(n) == CHOOSE t \in SavimeSupportedTypes : t.name = n

(***************************************************************************)
(* schema.py: primitive value types.                                       *)
(***************************************************************************)
Literal(values, data_type) ==
  [cls |-> "Literal", values |-> values, data_type |-> data_type]

Literal_plain_query_str(self) ==
  LET include_double_quotes == self.data_type = TypeNamed("CHAR")
      value_str(v) == IF include_double_quotes THEN <<"\"", str(v), "\"">>
                      ELSE <<str(v)>>
  IN <<"literal", "(">>
       \o join(<<",">>, [i \in 1..Len(self.values) |-> value_str(self.values[i])])
       \o <<")">>

\* Range.__init__ with start <= stop in place of start < stop.
Range_init_start_le_stop(start, stop, step, num_repetitions) ==
  IF ~(0 <= start /\ start <= stop) THEN Raise("AssertionError")
  ELSE IF ~(0 < num_repetitions) THEN Raise("AssertionError")
  ELSE Ok([cls |-> "Range", start |-> start, stop |-> stop, step |-> step,
           num_repetitions |-> num_repetitions])

Range_init(start, stop, step, num_repetitions) ==
  IF ~(0 <= start /\ start < stop) THEN Raise("AssertionError")
  ELSE IF ~(0 < num_repetitions) THEN Raise("AssertionError")
  ELSE Ok([cls |-> "Range", start |-> start, stop |-> stop, step |-> step,
           num_repetitions |-> num_repetitions])

Range_plain_query_str(self) ==
  <<"\"", int_str(self.start), ":", int_str(self.step), ":", int_str(self.stop), ":",
    int_str(self.num_repetitions), "\"">>

IntervalRange(start, stop, step) ==
  [cls |-> "IntervalRange", start |-> start, stop |-> stop, step |-> step]

IndexRange(start, stop, is_physical) ==
  [cls |-> "IndexRange", start |-> start, stop |-> stop, is_physical |-> is_physical]

(***************************************************************************)
(* str.format: every occurrence of the placeholder token is replaced by    *)
(* the argument.                                                           *)
(***************************************************************************)
RECURSIVE format(_, _, _)
format(s, placeholder, arg) ==
  IF s = <<>> THEN <<>>
  ELSE (IF Head(s) = placeholder THEN arg ELSE <<Head(s)>>)
         \o format(Tail(s), placeholder, arg)

(***************************************************************************)
(* pysavime/schema/dataset.py                                              *)
(***************************************************************************)
DatasetClasses == {"FileDataset", "LiteralDataset", "RangeDataset"}

\* Dataset.__init__: the fields every dataset has.
Dataset_init(name, data_type, num_columns) ==
  IF ~(num_columns > 0) THEN Raise("AssertionError")
  ELSE Ok([name |-> name, data_type |-> data_type, num_columns |-> num_columns])

Dataset_plain_query_str(self) ==
  <<"\"", self.name, ":", self.data_type.value, ":", int_str(self.num_columns), "\"">>
    \o <<",", " ", "{}">>

FileDataset_init(file_path, is_in_savime_storage, name, data_type, num_columns) ==
  LET base == Dataset_init(name, data_type, num_columns)
  IN IF base.raised # "none" THEN base
     ELSE Ok([cls |-> "FileDataset", name |-> base.value.name,
              data_type |-> base.value.data_type,
              num_columns |-> base.value.num_columns,
              file_path |-> file_path,
              is_in_savime_storage |-> is_in_savime_storage])

\* FileDataset.plain_query_str with the storage marker on the wrong branch.
FileDataset_plain_query_str_marker_inverted(self) ==
  LET class_specific_str ==
        <<"\"">> \o (IF self.is_in_savime_storage THEN <<"@">> ELSE <<>>)
                 \o <<self.file_path, "\"">>
  IN format(Dataset_plain_query_str(self), "{}", class_specific_str)

FileDataset_plain_query_str(self) ==
  LET class_specific_str ==
        <<"\"">> \o (IF self.is_in_savime_storage THEN <<>> ELSE <<"@">>)
                 \o <<self.file_path, "\"">>
  IN format(Dataset_plain_query_str(self), "{}", class_specific_str)

\* LiteralDataset.__init__ taking a data_type of its own and not comparing it.
LiteralDataset_init_own_data_type(name, literal, num_columns, data_type) ==
  LET base == Dataset_init(name, IF data_type = NoneVal THEN literal.data_type
                                 ELSE data_type, num_columns)
  IN IF base.raised # "none" THEN base
     ELSE Ok([cls |-> "LiteralDataset", name |-> base.value.name,
              data_type |-> base.value.data_type,
              num_columns |-> base.value.num_columns,
              literal |-> literal])

\* LiteralDataset.__init__(self, name, literal, num_columns): the signature has
\* no data_type parameter, so a call that passes one (data_type # NoneVal here)
\* is a TypeError; the dataset's data_type is the literal's.
LiteralDataset_init(name, literal, num_columns, data_type) ==
  IF data_type # NoneVal THEN Raise("TypeError")
  ELSE LET base == Dataset_init(name, literal.data_type, num_columns)
       IN IF base.raised # "none" THEN base
          ELSE IF ~(base.value.data_type = literal.data_type)
               THEN Raise("AssertionError")
          ELSE Ok([cls |-> "LiteralDataset", name |-> base.value.name,
                   data_type |-> base.value.data_type,
                   num_columns |-> base.value.num_columns,
                   literal |-> literal])

LiteralDataset_plain_query_str(self) ==
  format(Dataset_plain_query_str(self), "{}", Literal_plain_query_str(self.literal))

RangeDataset_init(name, range, data_type) ==
  LET base == Dataset_init(name, data_type, 1)
  IN IF base.raised # "none" THEN base
     ELSE Ok([cls |-> "RangeDataset", name |-> base.value.name,
              data_type |-> base.value.data_type,
              num_columns |-> base.value.num_columns,
              range |-> range])

RangeDataset_plain_query_str(self) ==
  format(Dataset_plain_query_str(self), "{}", Range_plain_query_str(self.range))

\* self.plain_query_str() on a dataset: the subclass's override.
Dataset_dispatch_plain_query_str(self) ==
  CASE self.cls = "FileDataset" -> FileDataset_plain_query_str(self)
    [] self.cls = "LiteralDataset" -> LiteralDataset_plain_query_str(self)
    [] self.cls = "RangeDataset" -> RangeDataset_plain_query_str(self)

Dataset_create_query_str(self) ==
  <<"CREATE_DATASET", "(">> \o Dataset_dispatch_plain_query_str(self) \o <<")", ";">>

Dataset_drop_query_str(self) ==
  <<"DROP_DATASET", "(", "\"", self.name, "\"", ")", ";">>

\* literal_dataset of define.py; data types are given as enum members here.
literal_dataset(name, values, data_type, length) ==
  LiteralDataset_init(name, Literal(values, data_type), length, NoneVal)

(***************************************************************************)
(* schema/tar.py                                                           *)
(***************************************************************************)
TarMetaType(name, dimension_names, attribute_names) ==
  [cls |-> "TarMetaType", name |-> name, dimension_names |-> dimension_names,
   attribute_names |-> attribute_names]

TarAttributeSpecification_init(name, data_type, num_columns) ==
  IF ~(num_columns > 0) THEN Raise("AssertionError")
  ELSE Ok([cls |-> "TarAttributeSpecification", name |-> name,
           data_type |-> data_type, num_columns |-> num_columns])

TarAttributeSpecification_plain_query_str(self) ==
  <<self.name, ",", " ", self.data_type.value, ":", " ", int_str(self.num_columns)>>

ImplicitTarDimensionSpecification(name, data_type, interval) ==
  [cls |-> "ImplicitTarDimensionSpecification", name |-> name,
   data_type |-> data_type, interval |-> interval]

ImplicitTarDimensionSpecification_plain_query_str(self) ==
  <<"implicit", ",", " ", self.name, ",", " ", self.data_type.value, ",", " ",
    int_str(self.interval.start), ",", " ", int_str(self.interval.stop), ",">>
    \o <<" ", int_str(self.interval.step)>>

ExplicitTarDimensionSpecification(name, dataset) ==
  [cls |-> "ExplicitTarDimensionSpecification", name |-> name, dataset |-> dataset,
   dataset_name |-> IF dataset.cls = "str" THEN dataset.value ELSE dataset.name]

ExplicitTarDimensionSpecification_plain_query_str(self) ==
  <<"explicit", ",", " ", self.name, ",", " ", self.dataset_name>>

TarDimensionSpecification_plain_query_str(self) ==
  CASE self.cls = "ImplicitTarDimensionSpecification" ->
         ImplicitTarDimensionSpecification_plain_query_str(self)
    [] self.cls = "ExplicitTarDimensionSpecification" ->
         ExplicitTarDimensionSpecification_plain_query_str(self)

\* A dict is the sequence of its (key, value) items, in insertion order.
Dict(items) == [cls |-> "dict", items |-> items]

\* Tar.__init__ checking one direction only: a mapping without a meta type passes.
Tar_init_one_sided(name, dimension_specification, attribute_specification, meta_type, meta_type_mapping) ==
  IF meta_type # NoneVal /\ meta_type_mapping = NoneVal
  THEN Raise("AssertionError")
  ELSE Ok([cls |-> "Tar", name |-> name,
           dimension_specification |-> dimension_specification,
           attribute_specification |-> attribute_specification,
           meta_type |-> meta_type,
           meta_type_mapping |-> meta_type_mapping])

Tar_init(name, dimension_specification, attribute_specification, meta_type, meta_type_mapping) ==
  IF (meta_type # NoneVal) # (meta_type_mapping # NoneVal)
  THEN Raise("AssertionError")
  ELSE Ok([cls |-> "Tar", name |-> name,
           dimension_specification |-> dimension_specification,
           attribute_specification |-> attribute_specification,
           meta_type |-> meta_type,
           meta_type_mapping |-> meta_type_mapping])

\* Tar.dimension_specification_str leaving out a specification equal to an earlier one.
Tar_dimension_specification_str_deduplicated(self) ==
  LET dims == self.dimension_specification
      kept == {i \in 1..Len(dims) : \A j \in 1..(i - 1) : dims[j] # dims[i]}
      nth(k) == CHOOSE i \in kept : Cardinality({j \in kept : j < i}) = k - 1
  IN join(<<" ", "|", " ">>,
          [k \in 1..Cardinality(kept) |->
             TarDimensionSpecification_plain_query_str(dims[nth(k)])])

Tar_dimension_specification_str(self) ==
  join(<<" ", "|", " ">>,
       [i \in 1..Len(self.dimension_specification) |->
          TarDimensionSpecification_plain_query_str(self.dimension_specification[i])])

Tar_attribute_specification_str(self) ==
  join(<<" ", "|", " ">>,
       [i \in 1..Len(self.attribute_specification) |->
          TarAttributeSpecification_plain_query_str(self.attribute_specification[i])])

Tar_meta_type_query_str(self) ==
  IF self.meta_type # NoneVal
  THEN IF self.meta_type.cls = "TarMetaType" THEN self.meta_type.name
       ELSE self.meta_type.value
  ELSE "*"

\* None has no items(): with a meta type and no mapping the lookup raises.
Tar_mapping_query_str(self) ==
  IF self.meta_type # NoneVal
  THEN IF self.meta_type_mapping = NoneVal THEN Raise("AttributeError")
       ELSE LET items == self.meta_type_mapping.items
            IN Ok(<<" ", ",", "\"">>
                    \o join(<<",", " ">>,
                            [i \in 1..Len(items) |->
                               <<items[i][1], ",", " ", items[i][2]>>])
                    \o <<"\"">>)
  ELSE Ok(<<>>)

Tar_plain_query_str(self) ==
  LET mapping == Tar_mapping_query_str(self)
  IN IF mapping.raised # "none" THEN mapping
     ELSE Ok(<<"\"", self.name, "\"", ",", " ">>
               \o <<"\"", Tar_meta_type_query_str(self), "\"", ",", " ">>
               \o <<"\"">> \o Tar_dimension_specification_str(self) \o <<"\"", ",", " ">>
               \o <<"\"">> \o Tar_attribute_specification_str(self) \o <<"\"">>
               \o <<" ">> \o mapping.value \o <<" ">>)

Tar_create_query_str(self) ==
  LET plain == Tar_plain_query_str(self)
  IN IF plain.raised # "none" THEN plain
     ELSE Ok(<<"CREATE_TAR", "(">> \o plain.value \o <<")", ";">>)

(***************************************************************************)
(* pysavime/schema/subtar.py                                               *)
(***************************************************************************)
\* SubTarDimensionSpecification.__init__: the fields every variant has.
SubTarDimensionSpecification_init(cls, dimension, index_range) ==
  [cls |-> cls, dimension |-> dimension, index_range |-> index_range,
   index_prefix |-> IF index_range.is_physical THEN <<>> ELSE <<"#">>,
   dimension_name |-> IF dimension.cls = "str" THEN dimension.value ELSE dimension.name,
   dataset |-> NoneVal, dataset_name |-> "None"]

OrderedSubTarDimensionSpecification(dimension, index_range) ==
  SubTarDimensionSpecification_init("OrderedSubTarDimensionSpecification",
                                    dimension, index_range)

OrderedSubTarDimensionSpecification_plain_query_str(self) ==
  <<"ordered", ",", " ", self.dimension_name, ",", " ">>
    \o self.index_prefix \o <<int_str(self.index_range.start), ",">>
    \o self.index_prefix \o <<int_str(self.index_range.stop)>>

SpecifiedByDatasetSubTarDimensionSpecification_init(cls, dataset, dimension, index_range) ==
  [SubTarDimensionSpecification_init(cls, dimension, index_range) EXCEPT
     !.dataset = dataset,
     !.dataset_name = IF dataset.cls \in DatasetClasses THEN dataset.name
                      ELSE dataset.value]

\* The same with the prefix left off the stop.
SpecifiedByDatasetSubTarDimensionSpecification_plain_query_str_stop_bare(self) ==
  <<"{__type__}">>
    \o <<",", " ", self.dimension_name, ",", " ">>
    \o self.index_prefix \o <<int_str(self.index_range.start), ",", " ">>
    \o <<int_str(self.index_range.stop), ",", " ", self.dataset_name>>

SpecifiedByDatasetSubTarDimensionSpecification_plain_query_str(self) ==
  <<"{__type__}">>
    \o <<",", " ", self.dimension_name, ",", " ">>
    \o self.index_prefix \o <<int_str(self.index_range.start), ",", " ">>
    \o self.index_prefix \o <<int_str(self.index_range.stop), ",", " ", self.dataset_name>>

PartialSubTarDimensionSpecification(dataset, dimension, index_range) ==
  SpecifiedByDatasetSubTarDimensionSpecification_init(
    "PartialSubTarDimensionSpecification", dataset, dimension, index_range)

PartialSubTarDimensionSpecification_plain_query_str(self) ==
  format(SpecifiedByDatasetSubTarDimensionSpecification_plain_query_str(self),
         "{__type__}", <<"partial">>)

TotalSubTarDimensionSpecification(dataset, dimension, index_range) ==
  SpecifiedByDatasetSubTarDimensionSpecification_init(
    "TotalSubTarDimensionSpecification", dataset, dimension, index_range)

TotalSubTarDimensionSpecification_plain_query_str(self) ==
  format(SpecifiedByDatasetSubTarDimensionSpecification_plain_query_str(self),
         "{__type__}", <<"total">>)

SubTarDimensionSpecification_plain_query_str(self) ==
  CASE self.cls = "OrderedSubTarDimensionSpecification" ->
         OrderedSubTarDimensionSpecification_plain_query_str(self)
    [] self.cls = "PartialSubTarDimensionSpecification" ->
         PartialSubTarDimensionSpecification_plain_query_str(self)
    [] self.cls = "TotalSubTarDimensionSpecification" ->
         TotalSubTarDimensionSpecification_plain_query_str(self)

SubTarAttributeSpecification(attribute, dataset) ==
  [cls |-> "SubTarAttributeSpecification", attribute_specification |-> attribute,
   dataset |-> dataset,
   dataset_name |-> IF dataset.cls = "str" THEN dataset.value ELSE dataset.name,
   attribute_specification_name |->
     IF attribute.cls = "str" THEN attribute.value ELSE attribute.name]

SubTarAttributeSpecification_plain_query_str(self) ==
  <<self.attribute_specification_name, ",", " ", self.dataset_name>>

SubTar(tar, dimension_specification, attribute_specification) ==
  [cls |-> "SubTar", tar |-> tar,
   dimension_specification |-> dimension_specification,
   attribute_specification |-> attribute_specification]

SubTar_plain_query_str(self) ==
  LET tar_name == IF self.tar.cls = "Tar" THEN self.tar.name ELSE self.tar.value
      attribute_specification_str ==
        join(<<" ", "|", " ">>,
             [i \in 1..Len(self.attribute_specification) |->
                SubTarAttributeSpecification_plain_query_str(
                  self.attribute_specification[i])])
      dimension_specification_str ==
        join(<<" ", "|", " ">>,
             [i \in 1..Len(self.dimension_specification) |->
                SubTarDimensionSpecification_plain_query_str(
                  self.dimension_specification[i])])
  IN <<"\"", tar_name, "\"", ",", " ">>
       \o <<"\"">> \o dimension_specification_str \o <<"\"", ",", " ">>
       \o <<"\"">> \o attribute_specification_str \o <<"\"">>

SubTar_load_query_str(self) ==
  <<"LOAD_SUBTAR", "(">> \o SubTar_plain_query_str(self) \o <<")">>

(***************************************************************************)
(* pysavime/misc/commands.py                                               *)
(***************************************************************************)
\* The name of a schema object of the class, a str itself, None otherwise;
\* the name is then formatted into the command, None as the word None.
\* isinstance: the class itself or one of its subclasses.
isinstance(elem, element_class) ==
  \/ elem.cls = element_class
  \/ /\ element_class = "TarDimensionSpecification"
     /\ elem.cls \in {"ImplicitTarDimensionSpecification",
                      "ExplicitTarDimensionSpecification"}

\* Name resolution that passes strings through and knows no schema object.
get_name_of_named_element_str_only(elem, element_class) ==
  IF elem.cls = "str" THEN elem.value ELSE "None"

get_name_of_named_element(elem, element_class) ==
  IF isinstance(elem, element_class) THEN elem.name
  ELSE IF elem.cls = "str" THEN elem.value
  ELSE "None"

get_tar_name(tar) == get_name_of_named_element(tar, "Tar")

get_tar_dimension_name(dimension) ==
  get_name_of_named_element(dimension, "TarDimensionSpecification")

get_tar_attribute_name(attribute) ==
  get_name_of_named_element(attribute, "TarAttributeSpecification")

\* The leading whole tuples only, whatever the length.
split_into_n_truncating(sequence, n) ==
  Ok([k \in 1..(Len(sequence) \div n) |->
        [j \in 1..n |-> sequence[(k - 1) * n + j]]])

\* _split_into_n: the tuples of n successive elements.
split_into_n(sequence, n) ==
  IF Len(sequence) % n # 0 THEN Raise("AssertionError")
  ELSE Ok([k \in 1..(Len(sequence) \div n) |->
             [j \in 1..n |-> sequence[(k - 1) * n + j]]])

sequence_to_str(t) ==
  join(<<",", " ">>, [i \in 1..Len(t) |-> <<str(t[i])>>])

\* The slice point without the factor 3.
aggregate_ix_dims_quarter(args) == Len(args) \div 4

\* The slice point of aggregate when len(args) % 4 == 0.
aggregate_ix_dims(args) == (Len(args) \div 4) * 3

\* args[ix_dims:], the group-by dimensions
aggregate_dims(args) == SubSeq(args, aggregate_ix_dims(args) + 1, Len(args))

\* _split_into_n(args[:ix_dims], 3)
aggregate_triplets(args) == split_into_n(SubSeq(args, 1, aggregate_ix_dims(args)), 3)

\* The leading whole triplets only: no assertion on the count.
aggregate_all_triplets_leading(args) ==
  split_into_n(SubSeq(args, 1, 3 * (Len(args) \div 3)), 3)

\* _split_into_n(args, 3), when len(args) % 4 != 0
aggregate_all_triplets(args) == split_into_n(args, 3)

aggregate(tar, args) ==
  LET tar_name == get_tar_name(tar)
  IN IF Len(args) % 4 = 0
     THEN LET dim_attr_str == sequence_to_str(aggregate_dims(args))
              triplets == aggregate_triplets(args)
          IN IF triplets.raised # "none" THEN triplets
             ELSE Ok(<<"AGGREGATE", "(", tar_name, ",", " ">>
                       \o join(<<",", " ">>,
                               [i \in 1..Len(triplets.value) |->
                                  sequence_to_str(triplets.value[i])])
                       \o <<",", " ">> \o dim_attr_str \o <<")">>)
     ELSE LET triplets == aggregate_all_triplets(args)
          IN IF triplets.raised # "none" THEN triplets
             ELSE Ok(<<"AGGREGATE", "(", tar_name, ",", " ">>
                       \o join(<<",", " ">>,
                               [i \in 1..Len(triplets.value) |->
                                  sequence_to_str(triplets.value[i])])
                       \o <<")">>)

\* str.join over the elements themselves: a non-str element is a TypeError.
join_strs(sep, elements) ==
  IF \E i \in 1..Len(elements) : elements[i].cls # "str"
  THEN Raise("TypeError")
  ELSE Ok(join(sep, [i \in 1..Len(elements) |-> <<elements[i].value>>]))

select(tar, data_elements) ==
  LET tar_name == get_tar_name(tar)
  IN IF Len(data_elements) > 1
     THEN LET data_elements_str == join_strs(<<",", " ">>, data_elements)
          IN IF data_elements_str.raised # "none" THEN data_elements_str
             ELSE Ok(<<"SELECT", "(", tar_name, ",", " ">>
                       \o data_elements_str.value \o <<")">>)
     ELSE Ok(<<"SELECT", "(", tar_name, ")">>)

where(tar, logical_predicate) ==
  Ok(<<"WHERE", "(", get_tar_name(tar), ",", " ", str(logical_predicate), ")">>)

\* ', '.join of the groups of a grouping, or the grouping's exception.
groups_str(groups) ==
  IF groups.raised # "none" THEN groups
  ELSE Ok(join(<<",", " ">>,
               [i \in 1..Len(groups.value) |-> sequence_to_str(groups.value[i])]))

subset(tar, dims) ==
  LET dims_str == groups_str(split_into_n(dims, 3))
  IN IF dims_str.raised # "none" THEN dims_str
     ELSE Ok(<<"SUBSET", "(", get_tar_name(tar), ",", " ">> \o dims_str.value \o <<")">>)

derive(tar, new_attribute_name, arithmetic_expression) ==
  Ok(<<"DERIVE", "(", get_tar_name(tar), ",", " ", str(new_attribute_name), ",", " ",
       str(arithmetic_expression), ")">>)

cross(left_tar, right_tar) ==
  Ok(<<"CROSS", "(", get_tar_name(left_tar), ",", " ", get_tar_name(right_tar), ")">>)

dim_join(left_tar, right_tar, tar_dims) ==
  LET dims_str == groups_str(split_into_n(tar_dims, 2))
  IN IF dims_str.raised # "none" THEN dims_str
     ELSE Ok(<<"DIMJOIN", "(", get_tar_name(left_tar), ",", " ",
               get_tar_name(right_tar), ",", " ">> \o dims_str.value \o <<")">>)

\* The names of a sequence of named specifications, as a set.
names_of(specifications) == {specifications[i].name : i \in 1..Len(specifications)}

\* The client-side checks without the one on the input attribute.
register_model_checks_dims_only(model_tar, input_attribute_name, dim_names) ==
  IF ~isinstance(model_tar, "Tar") THEN "none"
  ELSE IF ~({dim_names[i] : i \in 1..Len(dim_names)}
              \subseteq names_of(model_tar.dimension_specification))
  THEN "AssertionError"
  ELSE "none"

\* The client-side checks of register_model, made when model_tar is a Tar.
register_model_checks(model_tar, input_attribute_name, dim_names) ==
  IF ~isinstance(model_tar, "Tar") THEN "none"
  ELSE IF ~({dim_names[i] : i \in 1..Len(dim_names)}
              \subseteq names_of(model_tar.dimension_specification))
  THEN "AssertionError"
  ELSE IF input_attribute_name \notin names_of(model_tar.attribute_specification)
  THEN "AssertionError"
  ELSE "none"

\* dim_specification is a sequence of pairs <<dim, dim_size>>.
register_model(model_name, model_tar, input_attribute, dim_specification) ==
  LET model_tar_name == get_tar_name(model_tar)
      input_attribute_name == get_tar_attribute_name(input_attribute)
  IN IF Len(dim_specification) = 0 THEN Raise("ValueError")
     ELSE LET dim_names == [i \in 1..Len(dim_specification) |->
                              get_tar_dimension_name(dim_specification[i][1])]
              dim_sizes == [i \in 1..Len(dim_specification) |-> dim_specification[i][2]]
              failed == register_model_checks(model_tar, input_attribute_name, dim_names)
              dim_specification_str ==
                join(<<"|">>, [i \in 1..Len(dim_names) |->
                                 <<dim_names[i], "-", int_str(dim_sizes[i])>>])
          IN IF failed # "none" THEN Raise(failed)
             ELSE Ok(<<"REGISTER_MODEL", "(", model_name, ",", " ", model_tar_name, ",", " ",
                       input_attribute_name, ",", " ", "\"">>
                       \o dim_specification_str \o <<"\"", ")">>)

(***************************************************************************)
(* misc/command_runner.py: a runner holds the connector's execute and      *)
(* submits one command string per call.  A method gives the command it     *)
(* hands to execute, or the exception raised before execute is reached.    *)
(***************************************************************************)
CommandRunner_init(client) == [cls |-> "CommandRunner", client |-> client]

\* savime_element.create_query_str(), by the class of the element
create_query_str(savime_element) ==
  IF savime_element.cls = "Tar" THEN Tar_create_query_str(savime_element)
  ELSE Ok(Dataset_create_query_str(savime_element))

CommandRunner_create(self, savime_element) == create_query_str(savime_element)

CommandRunner_load(self, savime_element) == Ok(SubTar_load_query_str(savime_element))

CommandRunner_drop_tar(self, name) == Ok(<<"DROP_TAR", "(", "\"", name, "\"", ")", ";">>)

CommandRunner_drop_dataset(self, name) ==
  Ok(<<"DROP_DATASET", "(", "\"", name, "\"", ")", ";">>)

\* drop_type is a staticmethod whose parameters are (self, name): nothing is
\* bound to self by the call, so args are the positional arguments as the
\* caller wrote them.
CommandRunner_drop_type(args) ==
  IF Len(args) # 2 THEN Raise("TypeError")
  ELSE LET self == args[1]
           name == args[2]
       IN IF self.cls # "CommandRunner" THEN Raise("AttributeError")
          ELSE Ok(<<"DROP_TYPE", "(", "\"", str(name), "\"", ")", ";">>)

\* dim_specification is a sequence of pairs <<dim_name, dim_size>>.
CommandRunner_register_model(self, model_name, model_tar, input_attribute, dim_specification) ==
  LET dim_specification_str ==
        join(<<"|">>, [i \in 1..Len(dim_specification) |->
                         <<dim_specification[i][1], "-", int_str(dim_specification[i][2])>>])
  IN Ok(<<"REGISTER_MODEL", "(", model_name, ",", " ", model_tar, ",", " ",
          input_attribute, ",", " ", "\"">> \o dim_specification_str \o <<"\"", ")", ";">>)

CommandRunner_predict(self, tar, model_name, input_attribute) ==
  Ok(<<"PREDICT", "(", tar, ",", " ", model_name, ",", " ", input_attribute, ")", ";">>)

(***************************************************************************)
(* numpy arrays of rank 1 and 2: a shape and the elements in row-major     *)
(* order.  Indices are Python's, from 0.                                   *)
(***************************************************************************)
NdArray(shape, data) == [cls |-> "ndarray", shape |-> shape, data |-> data]

\* len(array): the extent of the first axis
len(array) == array.shape[1]

\* array.ravel(): the elements as a rank-1 array
ravel(array) == NdArray(<<Len(array.data)>>, array.data)

\* The elements of a finite set of integers in ascending order.
RECURSIVE sorted(_)
sorted(S) ==
  IF S = {} THEN <<>>
  ELSE LET least == CHOOSE v \in S : \A w \in S : v <= w
       IN <<least>> \o sorted(S \ {least})

\* np.unique(array): the sorted distinct elements
unique(array) ==
  LET values == sorted({array.data[i] : i \in 1..Len(array.data)})
  IN NdArray(<<Len(values)>>, values)

\* np.arange(n), also with dtype=np.int, numpy's alias of the builtin int
arange(n) == NdArray(<<n>>, [i \in 1..n |-> i - 1])

\* np.tile(array, num_times) of a rank-1 array: the whole array, num_times times
tile(array, num_times) ==
  LET n == Len(array.data)
  IN NdArray(<<n * num_times>>, [i \in 1..(n * num_times) |-> array.data[((i - 1) % n) + 1]])

\* np.repeat(array, num_times) of a rank-1 array: every element num_times times
repeat(array, num_times) ==
  LET n == Len(array.data)
  IN NdArray(<<n * num_times>>,
             [i \in 1..(n * num_times) |-> array.data[((i - 1) \div num_times) + 1]])

\* A matrix flattened row after row, as one column.
concatenate_hsplit_row_major(array) ==
  NdArray(<<array.shape[1] * array.shape[2], 1>>, array.data)

\* np.concatenate(np.hsplit(array, columns), axis=0) of a matrix: its columns
\* one under the other, a matrix of one column.
concatenate_hsplit(array) ==
  LET rows == array.shape[1]
      columns == array.shape[2]
  IN NdArray(<<rows * columns, 1>>,
             [i \in 1..(rows * columns) |->
                array.data[((i - 1) % rows) * columns + ((i - 1) \div rows) + 1]])

\* np.hstack of matrices with the same number of rows
hstack(arrays) ==
  LET rows == arrays[1].shape[1]
      widths == [j \in 1..Len(arrays) |-> arrays[j].shape[2]]
      RECURSIVE row(_, _)
      row(r, j) ==
        IF j > Len(arrays) THEN <<>>
        ELSE SubSeq(arrays[j].data, (r - 1) * widths[j] + 1, r * widths[j]) \o row(r, j + 1)
      RECURSIVE all(_)
      all(r) == IF r > rows THEN <<>> ELSE row(r, 1) \o all(r + 1)
      RECURSIVE total(_)
      total(j) == IF j > Len(arrays) THEN 0 ELSE widths[j] + total(j + 1)
  IN NdArray(<<rows, total(1)>>, all(1))

\* The index tuples of an array of the shape.
RECURSIVE Cells(_)
Cells(shape) ==
  IF shape = <<>> THEN {<<>>}
  ELSE {<<i>> \o rest : i \in 0..(shape[1] - 1), rest \in Cells(Tail(shape))}

\* The indexed assignment with the earliest of several writes to a cell kept.
RECURSIVE setitem_first_wins(_, _, _, _)
setitem_first_wins(out, index_arrays, values, i) ==
  IF i > Len(values) THEN out
  ELSE LET cell == [d \in 1..Len(index_arrays) |-> index_arrays[d].data[i]]
           written == \E q \in 1..(i - 1) :
                        [d \in 1..Len(index_arrays) |-> index_arrays[d].data[q]] = cell
       IN setitem_first_wins(IF written THEN out ELSE [out EXCEPT ![cell] = values[i]],
                             index_arrays, values, i + 1)

\* out[tuple(index_arrays)] = values, entry by entry in index order; out is a
\* function on Cells.  The index arrays have one length, values that length.
RECURSIVE setitem(_, _, _, _)
setitem(out, index_arrays, values, i) ==
  IF i > Len(values) THEN out
  ELSE LET cell == [d \in 1..Len(index_arrays) |-> index_arrays[d].data[i]]
       IN setitem([out EXCEPT ![cell] = values[i]], index_arrays, values, i + 1)

\* Whether a value array of length k can be assigned at n indexed entries:
\* numpy broadcasts a single value and nothing else.
broadcastable(k, n) == k = n \/ k = 1

(***************************************************************************)
(* util/data_variable.py                                                   *)
(***************************************************************************)
\* An OrderedDict: its (key, value) pairs in insertion order.
OrderedDict(items) == [cls |-> "OrderedDict", items |-> items]

dict_keys(d) == [i \in 1..Len(d.items) |-> d.items[i][1]]

dict_values(d) == [i \in 1..Len(d.items) |-> d.items[i][2]]

\* do_values_have_same_length: one length, and at least one value
do_values_have_same_length(arrays) ==
  Cardinality({len(arrays[i]) : i \in 1..Len(arrays)}) = 1

\* DataVariableBlock(dims=dims, attrs=attrs)
DataVariableBlock_new(dims, attrs) ==
  IF dims.cls # "OrderedDict" THEN Raise("AssertionError")
  ELSE IF attrs.cls # "OrderedDict" THEN Raise("AssertionError")
  ELSE IF ~do_values_have_same_length(dict_values(dims)) THEN Raise("AssertionError")
  ELSE IF ~do_values_have_same_length(dict_values(attrs)) THEN Raise("AssertionError")
  ELSE Ok([cls |-> "DataVariableBlock", dims |-> dims, attrs |-> attrs])

\* SavimeDataTypeUtility.is_array_compatible: a supported element type, which
\* every array of the model has, and a rank of at most 2.
is_array_compatible(array) == Len(array.shape) <= 2

\* DataVariable(name, array, is_dimension)
DataVariable_new(name, array, is_dimension) ==
  IF ~is_array_compatible(array) THEN Raise("AssertionError")
  ELSE Ok([cls |-> "DataVariable", name |-> name, array |-> array,
           is_dimension |-> is_dimension])

\* __assert_data_variables_validity: the exception it raises, if any.  The
\* loop checks every dimension array; max() of no names is a ValueError.
assert_data_variables_validity(data_variables) ==
  LET n == Len(data_variables)
  IN IF \E i \in 1..n : data_variables[i].cls # "DataVariable" THEN "AssertionError"
     ELSE IF \E i \in 1..n :
               /\ data_variables[i].is_dimension
               /\ data_variables[i].array.shape[Len(data_variables[i].array.shape)] # 1
     THEN "AssertionError"
     ELSE IF n = 0 THEN "ValueError"
     ELSE IF \E i, j \in 1..n : i # j /\ data_variables[i].name = data_variables[j].name
     THEN "AssertionError"
     ELSE IF Cardinality({data_variables[i].array.shape[1] : i \in 1..n}) # 1
     THEN "AssertionError"
     ELSE "none"

\* __process: the dimension variables and the others, each in input order
process(data_variables, is_dimension) ==
  LET RECURSIVE from(_)
      from(i) ==
        IF i > Len(data_variables) THEN <<>>
        ELSE (IF data_variables[i].is_dimension = is_dimension
              THEN << <<data_variables[i].name, data_variables[i].array>> >> ELSE <<>>)
               \o from(i + 1)
  IN OrderedDict(from(1))

\* DataVariableBlock(data_variables=data_variables)
DataVariableBlock_new_from_data_variables(data_variables) ==
  IF assert_data_variables_validity(data_variables) # "none"
  THEN Raise(assert_data_variables_validity(data_variables))
  ELSE Ok([cls |-> "DataVariableBlock",
           dims |-> process(data_variables, TRUE),
           attrs |-> process(data_variables, FALSE)])

\* The value of a key of an OrderedDict that has it.
getitem(d, key) == d.items[CHOOSE i \in 1..Len(d.items) : d.items[i][1] = key][2]

\* The arrays joined along the first axis, the last one first.
concatenate_reversed(arrays) ==
  LET RECURSIVE data_from(_)
      data_from(i) == IF i < 1 THEN <<>> ELSE arrays[i].data \o data_from(i - 1)
      RECURSIVE rows_from(_)
      rows_from(i) == IF i < 1 THEN 0 ELSE arrays[i].shape[1] + rows_from(i - 1)
  IN IF \E i \in 2..Len(arrays) : Tail(arrays[i].shape) # Tail(arrays[1].shape)
     THEN Raise("ValueError")
     ELSE Ok(NdArray(<<rows_from(Len(arrays))>> \o Tail(arrays[1].shape),
                     data_from(Len(arrays))))

\* np.concatenate(arrays, axis=0) of one array or more: they must agree in
\* rank and in every extent but the first.
concatenate(arrays) ==
  LET RECURSIVE data_from(_)
      data_from(i) == IF i > Len(arrays) THEN <<>> ELSE arrays[i].data \o data_from(i + 1)
      RECURSIVE rows_from(_)
      rows_from(i) == IF i > Len(arrays) THEN 0 ELSE arrays[i].shape[1] + rows_from(i + 1)
  IN IF \E i \in 2..Len(arrays) : Tail(arrays[i].shape) # Tail(arrays[1].shape)
     THEN Raise("ValueError")
     ELSE Ok(NdArray(<<rows_from(1)>> \o Tail(arrays[1].shape), data_from(1)))

\* check_keys: whether some mapping's keys() differ from the first's; key
\* views compare as sets.
check_keys(elements) ==
  \E i \in 2..Len(elements) :
    {elements[i].items[k][1] : k \in 1..Len(elements[i].items)}
      # {elements[1].items[k][1] : k \in 1..Len(elements[1].items)}

\* check_arrays_of_arrays with check_arrays: the values of every mapping are
\* paired by position with the first's; the arrays of the model are of one
\* element type, so a pair fails on a different rank.
check_arrays_of_arrays(arrays_of_arrays) ==
  IF \E i \in 2..Len(arrays_of_arrays) :
       \E k \in 1..Len(arrays_of_arrays[1]) :
         /\ k <= Len(arrays_of_arrays[i])
         /\ Len(arrays_of_arrays[i][k].shape) # Len(arrays_of_arrays[1][k].shape)
  THEN "AssertionError" ELSE "none"

\* DataVariableBlockOps._validate: the exception it raises, if any
validate(data_variable_blocks) ==
  LET n == Len(data_variable_blocks)
  IN IF check_keys([b \in 1..n |-> data_variable_blocks[b].dims]) THEN "AssertionError"
     ELSE IF check_arrays_of_arrays([b \in 1..n |-> dict_values(data_variable_blocks[b].dims)])
               # "none"
     THEN "AssertionError"
     ELSE IF check_keys([b \in 1..n |-> data_variable_blocks[b].attrs]) THEN "AssertionError"
     ELSE check_arrays_of_arrays([b \in 1..n |-> dict_values(data_variable_blocks[b].attrs)])

\* One mapping of concatenate: every key of the first block with the arrays
\* of all blocks under that key joined, or the exception of the first join
\* that fails.
arrays_concat(mappings) ==
  LET keys == dict_keys(mappings[1])
      joined == [k \in 1..Len(keys) |->
                   concatenate([b \in 1..Len(mappings) |-> getitem(mappings[b], keys[k])])]
      failing == {k \in 1..Len(keys) : joined[k].raised # "none"}
  IN IF failing # {} THEN Raise("ValueError")
     ELSE Ok(OrderedDict([k \in 1..Len(keys) |-> <<keys[k], joined[k].value>>]))

\* DataVariableBlockOps.concatenate
DataVariableBlockOps_concatenate(data_variable_blocks) ==
  LET n == Len(data_variable_blocks)
  IN IF n = 0 THEN Raise("AssertionError")
     ELSE IF validate(data_variable_blocks) # "none"
     THEN Raise(validate(data_variable_blocks))
     ELSE LET dim_arrays_concat == arrays_concat([b \in 1..n |-> data_variable_blocks[b].dims])
              attr_arrays_concat == arrays_concat([b \in 1..n |-> data_variable_blocks[b].attrs])
          IN IF dim_arrays_concat.raised # "none" THEN dim_arrays_concat
             ELSE IF attr_arrays_concat.raised # "none" THEN attr_arrays_concat
             ELSE DataVariableBlock_new(dim_arrays_concat.value, attr_arrays_concat.value)

(***************************************************************************)
(* pandas: an Index is its name and its labels; a MultiIndex is the names  *)
(* and the label arrays of its levels; a DataFrame is a matrix of values   *)
(* with a row index and a column index.                                    *)
(***************************************************************************)
\* A Python tuple used as a label.
PyTuple(items) == [cls |-> "tuple", items |-> items]

Index(labels, name) == [cls |-> "Index", name |-> name, labels |-> labels]

MultiIndex_from_arrays(arrays, names) ==
  [cls |-> "MultiIndex", names |-> names, arrays |-> arrays]

\* MultiIndex.from_tuples: the arrays are the components of the tuples
MultiIndex_from_tuples(tuples) ==
  [cls |-> "MultiIndex", names |-> <<NoneVal, NoneVal>>,
   arrays |-> [l \in 1..2 |-> [i \in 1..Len(tuples) |-> tuples[i][l]]]]

\* The number of entries of an index.
Index_len(index) ==
  IF index.cls = "Index" THEN Len(index.labels) ELSE Len(index.arrays[1])

\* pd.DataFrame(values, index=index, columns=columns) of a matrix
DataFrame(matrix, index, columns) ==
  IF matrix.shape # <<Index_len(index), Index_len(columns)>>
  THEN Raise("ValueError")
  ELSE Ok([cls |-> "DataFrame", index |-> index, columns |-> columns, values |-> matrix])

(***************************************************************************)
(* util/converter.py: DataVariableBlockToPandasDataFrame                   *)
(***************************************************************************)
\* num_columns of an attribute array
num_columns_of(attr_array) ==
  IF Len(attr_array.shape) = 1 THEN 1 ELSE attr_array.shape[Len(attr_array.shape)]

\* attr_array.shape = (attr_array.shape[0], 1), made in place on the block's
\* own array when it has one column.
reshaped_in_place(attr_array) ==
  IF num_columns_of(attr_array) = 1
  THEN NdArray(<<attr_array.shape[1], 1>>, attr_array.data)
  ELSE attr_array

\* The column labels one attribute contributes to attr_names.
attr_names_of(attr_name, attr_array) ==
  IF num_columns_of(attr_array) = 1 THEN <<PyStr(attr_name)>>
  ELSE [c \in 1..num_columns_of(attr_array) |-> PyTuple(<<attr_name, c - 1>>)]

dim_columns_to_index(dim_names, dim_columns) ==
  IF Len(dim_names) = 1 THEN Index(dim_columns[1].data, PyStr(dim_names[1]))
  ELSE MultiIndex_from_arrays([d \in 1..Len(dim_columns) |-> dim_columns[d].data],
                              [d \in 1..Len(dim_names) |-> PyStr(dim_names[d])])

\* The single names of a composite column index paired with no column (-1).
attr_names_to_index_single_kept(attr_names, multi_index) ==
  IF ~multi_index
  THEN Index([i \in 1..Len(attr_names) |-> attr_names[i].value], NoneVal)
  ELSE MultiIndex_from_tuples(
         [i \in 1..Len(attr_names) |->
            IF attr_names[i].cls = "tuple" THEN attr_names[i].items
            ELSE <<attr_names[i].value, -1>>])

\* Every single name paired with column 0 when the index is composite.
attr_names_to_index(attr_names, multi_index) ==
  IF ~multi_index
  THEN Index([i \in 1..Len(attr_names) |-> attr_names[i].value], NoneVal)
  ELSE MultiIndex_from_tuples(
         [i \in 1..Len(attr_names) |->
            IF attr_names[i].cls = "tuple" THEN attr_names[i].items
            ELSE <<attr_names[i].value, 0>>])

\* The block after the call: the one-column attribute arrays are reshaped.
DataVariableBlockToPandasDataFrame_block_after(data_variable_block) ==
  LET attrs == data_variable_block.attrs
  IN [data_variable_block EXCEPT !.attrs =
        OrderedDict([i \in 1..Len(attrs.items) |->
                       <<attrs.items[i][1], reshaped_in_place(attrs.items[i][2])>>])]

\* DataVariableBlockToPandasDataFrame.__call__: the frame, or the exception
DataVariableBlockToPandasDataFrame_call(data_variable_block) ==
  LET dim_names == dict_keys(data_variable_block.dims)
      dim_columns == [d \in 1..Len(dim_names) |->
                        ravel(dict_values(data_variable_block.dims)[d])]
      attrs == data_variable_block.attrs.items
      attr_columns == [i \in 1..Len(attrs) |-> reshaped_in_place(attrs[i][2])]
      RECURSIVE names_from(_)
      names_from(i) ==
        IF i > Len(attrs) THEN <<>>
        ELSE attr_names_of(attrs[i][1], attrs[i][2]) \o names_from(i + 1)
      attr_columns_multi_index ==
        \E i \in 1..Len(attrs) : num_columns_of(attrs[i][2]) # 1
  IN DataFrame(hstack(attr_columns),
               dim_columns_to_index(dim_names, dim_columns),
               attr_names_to_index(names_from(1), attr_columns_multi_index))

(***************************************************************************)
(* util/converter.py: DataVariableBlockToXarrayDataset                     *)
(***************************************************************************)
is_a_matrix(array) ==
  Len(array.shape) # 1 /\ (Len(array.shape) # 2 \/ array.shape[2] # 1)

\* The 0-based position of v among the sorted distinct elements.
position_in(unique_array, v) ==
  (CHOOSE p \in 1..Len(unique_array.data) : unique_array.data[p] = v) - 1

\* __mapped_indices with every coordinate mapped to position 0.
mapped_indices_unranked(dims) ==
  [d \in 1..Len(dims) |->
     NdArray(<<Len(dims[d].data)>>, [i \in 1..Len(dims[d].data) |-> 0])]

\* __mapped_indices: every coordinate replaced by its rank in its dimension
mapped_indices(dims) ==
  [d \in 1..Len(dims) |->
     LET mapper == unique(dims[d])
     IN NdArray(<<Len(dims[d].data)>>,
                [i \in 1..Len(dims[d].data) |-> position_in(mapper, dims[d].data[i])])]

\* What the loop body has for one attribute before it allocates: the dense
\* shape, the axis names and labels, the mapped index arrays and the flat values.
attr_layout(data_variable_block, attr_array) ==
  LET dim_arrays == dict_values(data_variable_block.dims)
      shape == [d \in 1..Len(dim_arrays) |-> len(unique(dim_arrays[d]))]
      coord_and_index_array_names == dict_keys(data_variable_block.dims)
      index_arrays == [d \in 1..Len(dim_arrays) |-> ravel(dim_arrays[d])]
      coord_arrays == [d \in 1..Len(dim_arrays) |-> unique(ravel(dim_arrays[d]))]
  IN IF is_a_matrix(attr_array)
     THEN LET columns == attr_array.shape[2]
              attr_index_arrays ==
                [d \in 1..Len(index_arrays) |-> tile(index_arrays[d], columns)]
                  \o <<repeat(arange(columns), attr_array.shape[1])>>
          IN [dense_shape |-> shape \o <<columns>>,
              names |-> coord_and_index_array_names \o <<"_0_">>,
              coord_arrays |-> coord_arrays \o <<arange(columns)>>,
              index_arrays |-> attr_index_arrays,
              flat |-> ravel(concatenate_hsplit(attr_array)).data]
     ELSE [dense_shape |-> shape,
           names |-> coord_and_index_array_names,
           coord_arrays |-> coord_arrays,
           index_arrays |-> index_arrays,
           flat |-> ravel(attr_array).data]

\* The exception of out_array[tuple(index_arrays)] = flat, if it raises one:
\* index arrays of different lengths do not index together, and a value array
\* is assigned only when it has one entry per index or a single entry.
setitem_raises(layout) ==
  LET lengths == {Len(layout.index_arrays[d].data) : d \in 1..Len(layout.index_arrays)}
  IN IF Cardinality(lengths) # 1 THEN "IndexError"
     ELSE IF ~broadcastable(Len(layout.flat), CHOOSE n \in lengths : TRUE) THEN "ValueError"
     ELSE "none"

\* The cells that the assignment writes.
written_cells(layout) ==
  LET mapped == mapped_indices(layout.index_arrays)
  IN {[d \in 1..Len(mapped) |-> mapped[d].data[i]] : i \in 1..Len(mapped[1].data)}

\* The cells of np.empty that no assignment reaches: what they hold is not defined.
unset_cells(layout) ==
  IF setitem_raises(layout) # "none" THEN {}
  ELSE Cells(layout.dense_shape) \ written_cells(layout)

\* One attribute's DataArray; unset is what np.empty left in the array, taken
\* to be one arbitrary value in all its cells, and shows in the cells that no
\* assignment reaches.
DataArray_of(layout, unset) ==
  LET mapped == mapped_indices(layout.index_arrays)
      entries == Len(mapped[1].data)
      flat == IF Len(layout.flat) = entries THEN layout.flat
              ELSE [i \in 1..entries |-> layout.flat[1]]
      empty == [cell \in Cells(layout.dense_shape) |-> unset]
      zeros == [cell \in Cells(layout.dense_shape) |-> FALSE]
  IN [cls |-> "DataArray",
      dims |-> layout.names,
      coords |-> [d \in 1..Len(layout.coord_arrays) |-> layout.coord_arrays[d].data],
      values |-> setitem(empty, mapped, flat, 1),
      mask |-> setitem(zeros, mapped, [i \in 1..entries |-> TRUE], 1)]

\* DataVariableBlockToXarrayDataset.__call__: the dataset, or the exception of
\* the first attribute that cannot be scattered.
DataVariableBlockToXarrayDataset_call(data_variable_block, unsets) ==
  LET attrs == data_variable_block.attrs.items
      layouts == [j \in 1..Len(attrs) |-> attr_layout(data_variable_block, attrs[j][2])]
      failing == {j \in 1..Len(attrs) : setitem_raises(layouts[j]) # "none"}
  IN IF failing # {}
     THEN Raise(setitem_raises(layouts[CHOOSE j \in failing : \A k \in failing : j <= k]))
     ELSE Ok([cls |-> "Dataset",
              data_vars |-> [j \in 1..Len(attrs) |->
                               <<attrs[j][1], DataArray_of(layouts[j], unsets[j])>>]])

(***************************************************************************)
(* util/converter.py: PandasDataFrameToDataVariableBlock                   *)
(***************************************************************************)
is_index_multi_index(index) == index.cls = "MultiIndex"

simple_index_to_dim(index) ==
  IF index.name = NoneVal THEN Raise("AssertionError")
  ELSE Ok(OrderedDict(<< <<index.name.value, NdArray(<<Len(index.labels)>>, index.labels)>> >>))

\* multi_index.codes: for every level, the position of each label among the
\* sorted distinct labels of the level
MultiIndex_codes(multi_index) ==
  [l \in 1..Len(multi_index.arrays) |->
     LET labels == NdArray(<<Len(multi_index.arrays[l])>>, multi_index.arrays[l])
     IN NdArray(labels.shape,
                [i \in 1..Len(labels.data) |-> position_in(unique(labels), labels.data[i])])]

\* multi_index_to_dim: array.values() exists on the frozen arrays of pandas
\* before 1.0 and is an AttributeError on the plain arrays of later versions.
RECURSIVE multi_index_to_dim_from(_, _, _)
multi_index_to_dim_from(multi_index, l, codes_have_values) ==
  IF l > Len(multi_index.names) THEN Ok(<<>>)
  ELSE IF multi_index.names[l] = NoneVal THEN Raise("AssertionError")
  ELSE IF ~codes_have_values THEN Raise("AttributeError")
  ELSE LET rest == multi_index_to_dim_from(multi_index, l + 1, codes_have_values)
       IN IF rest.raised # "none" THEN rest
          ELSE Ok(<< <<multi_index.names[l].value, MultiIndex_codes(multi_index)[l]>> >>
                    \o rest.value)

multi_index_to_dim(multi_index, codes_have_values) ==
  LET items == multi_index_to_dim_from(multi_index, 1, codes_have_values)
  IN IF items.raised # "none" THEN items ELSE Ok(OrderedDict(items.value))

\* index_to_dims calls itself on an index that is not a MultiIndex, until the
\* interpreter's recursion limit ends the call.
RECURSIVE index_to_dims(_, _, _)
index_to_dims(index, depth, codes_have_values) ==
  IF is_index_multi_index(index) THEN multi_index_to_dim(index, codes_have_values)
  ELSE IF depth >= RecursionLimit THEN Raise("RecursionError")
  ELSE index_to_dims(index, depth + 1, codes_have_values)

\* The columns of a matrix at the given positions, as a matrix.
columns_at(matrix, positions) ==
  LET rows == matrix.shape[1]
      width == matrix.shape[2]
      n == Len(positions)
  IN NdArray(<<rows, n>>,
             [i \in 1..(rows * n) |->
                matrix.data[((i - 1) \div n) * width + positions[((i - 1) % n) + 1]]])

\* The positions, ascending, at which the sequence holds v.
positions_of(labels, v) == sorted({i \in 1..Len(labels) : labels[i] = v})

\* The distinct elements of a sequence in the order of their first occurrence.
RECURSIVE first_occurrences(_)
first_occurrences(labels) ==
  IF labels = <<>> THEN <<>>
  ELSE LET init == first_occurrences(SubSeq(labels, 1, Len(labels) - 1))
           last == labels[Len(labels)]
       IN IF \E i \in 1..Len(init) : init[i] = last THEN init ELSE init \o <<last>>

\* columns_to_attrs: data_frame[column_name].values is a rank-1 array under a
\* plain column index and the matrix of the group's columns under a composite one.
columns_to_attrs(data_frame) ==
  LET multi == is_index_multi_index(data_frame.columns)
      labels == IF multi THEN data_frame.columns.arrays[1] ELSE data_frame.columns.labels
      names == first_occurrences(labels)
  IN OrderedDict(
       [j \in 1..Len(names) |->
          LET selected == columns_at(data_frame.values, positions_of(labels, names[j]))
          IN <<names[j],
               IF multi \/ Len(positions_of(labels, names[j])) > 1 THEN selected
               ELSE NdArray(<<selected.shape[1]>>, selected.data)>>])

PandasDataFrameToDataVariableBlock_call(data_frame, codes_have_values) ==
  LET dims == index_to_dims(data_frame.index, 0, codes_have_values)
  IN IF dims.raised # "none" THEN dims
     ELSE DataVariableBlock_new(dims.value, columns_to_attrs(data_frame))

(***************************************************************************)
(* util/converter.py: DataVariableBlockConverter                           *)
(***************************************************************************)
ConverterClasses == {"DataVariableBlockToPandasDataFrame", "DataVariableBlockToXarrayDataset"}

\* __set_converter falling back on the frame converter for an unknown tag.
DataVariableBlockConverter_init_with_default(registry, target_type) ==
  Ok([cls |-> "DataVariableBlockConverter", target_type |-> target_type,
      chosen_converter |-> IF target_type \in DOMAIN registry THEN registry[target_type]
                           ELSE "DataVariableBlockToPandasDataFrame"])

\* DataVariableBlockConverter.__init__ with __set_converter: the KeyError of the
\* lookup carries the key.
DataVariableBlockConverter_init(registry, target_type) ==
  IF target_type \notin DOMAIN registry
  THEN [raised |-> "KeyError", value |-> NoneVal, args |-> <<target_type>>]
  ELSE Ok([cls |-> "DataVariableBlockConverter", target_type |-> target_type,
           chosen_converter |-> registry[target_type]])

\* DataVariableBlockConverterABC.__new__: calling the class converts the block
ConverterClass_call(converter_class, data_variable_block, unsets) ==
  IF converter_class = "DataVariableBlockToPandasDataFrame"
  THEN DataVariableBlockToPandasDataFrame_call(data_variable_block)
  ELSE DataVariableBlockToXarrayDataset_call(data_variable_block, unsets)

DataVariableBlockConverter_call(self, data_variable_block, unsets) ==
  ConverterClass_call(self.chosen_converter, data_variable_block, unsets)

(***************************************************************************)
(* util/converter.py: numpy_array_to_savime_dataset.  A path is the        *)
(* sequence of its characters.                                             *)
(***************************************************************************)
\* os.path.join(a, p) for a relative p
path_join(a, p) ==
  IF a = <<>> THEN p
  ELSE IF a[Len(a)] = "/" THEN a \o p
  ELSE a \o <<"/">> \o p

\* s.startswith(prefix)
startswith(s, prefix) == Len(s) >= Len(prefix) /\ SubSeq(s, 1, Len(prefix)) = prefix

\* SavimeDataTypeUtility.numpy_to_savime_query(dtype)
numpy_to_savime_query(dtype) ==
  IF dtype = "int32" THEN TypeNamed("INT32") ELSE TypeNamed("FLOAT")

\* FileDataset(**kwargs): file_path and is_in_savime_storage are FileDataset's own
\* parameters, every other keyword is handed to Dataset.__init__(name, data_type,
\* num_columns=1).
FileDataset_call(kwargs) ==
  LET given == DOMAIN kwargs
      to_dataset == given \ {"file_path", "is_in_savime_storage"}
  IN IF ~({"file_path", "is_in_savime_storage"} \subseteq given) THEN Raise("TypeError")
     ELSE IF ~(to_dataset \subseteq {"name", "data_type", "num_columns"}) THEN Raise("TypeError")
     ELSE IF ~({"name", "data_type"} \subseteq to_dataset) THEN Raise("TypeError")
     ELSE FileDataset_init(kwargs.file_path, kwargs.is_in_savime_storage, kwargs.name,
                           kwargs.data_type,
                           IF "num_columns" \in given THEN kwargs.num_columns ELSE 1)

\* The files written and the datasets handed to client.create, in order, with the
\* value returned or the exception raised.
numpy_array_to_savime_dataset(array, dtype, dataset_name, dataset_dir_path, savime_storage_dir_path) ==
  IF ~is_array_compatible(array)
  THEN [raised |-> "AssertionError", value |-> NoneVal, written |-> <<>>, created |-> <<>>]
  ELSE LET dataset_file_path == path_join(dataset_dir_path, <<dataset_name>>)
           is_in_savime_storage == startswith(dataset_dir_path, savime_storage_dir_path)
           num_columns == IF Len(array.shape) # 0 THEN 1 ELSE array.shape[Len(array.shape)]
           dataset == FileDataset_call(
                        [name |-> dataset_name,
                         data_type |-> numpy_to_savime_query(dtype),
                         file_path |-> dataset_file_path,
                         is_in_savime_storage |-> is_in_savime_storage,
                         dimension |-> num_columns])
       IN IF dataset.raised # "none"
          THEN [raised |-> dataset.raised, value |-> NoneVal,
                written |-> <<dataset_file_path>>, created |-> <<>>]
          ELSE [raised |-> "none", value |-> dataset.value,
                written |-> <<dataset_file_path>>, created |-> <<dataset.value>>]

(***************************************************************************)
(* util/queue.py and RandomDatasetSplitter of test/example.py.  A slice is *)
(* a pair <<first, last>>; an element of the queue is the sequence of the  *)
(* slices chosen so far, one per dimension already cut.                    *)
(***************************************************************************)
\* Queue.push with the new element put in front.
Queue_push_front(q, value) == <<value>> \o q

\* Queue.push: list.append
Queue_push(q, value) == Append(q, value)

\* Queue.pop: list.pop(0), the queue that is left
Queue_pop(q) == Tail(q)

\* Queue.front
Queue_front(q) == q[1]

\* Queue.empty
Queue_empty(q) == Len(q) = 0

\* min(a, b)
min(a, b) == IF a <= b THEN a ELSE b

\* The exclusive upper end handed to np.random.randint(0, high) for the number of
\* inner cuts.
num_inner_cuts_high(dim_length, max_inner_cuts) == min(dim_length - 2, max_inner_cuts)

\* The end of get_dim_random_slices: both borders are added and consecutive points
\* give the slices.
slices_of_points(points, dim_length) ==
  LET sorted_points == sorted(points \cup {-1, dim_length - 1})
  IN [i \in 1..(Len(sorted_points) - 1) |-> <<sorted_points[i] + 1, sorted_points[i + 1]>>]

\* for random_slice in slices: q.push(current_slice + [random_slice])
RECURSIVE push_slices(_, _, _)
push_slices(q, current_slice, slices) ==
  IF slices = <<>> THEN q
  ELSE push_slices(Queue_push(q, current_slice \o <<Head(slices)>>), current_slice,
                   Tail(slices))

(***************************************************************************)
(* The values a client passes.                                            *)
(***************************************************************************)
Ints == -1..MaxInt

Names == {"t", "u"}

INT32 == TypeNamed("INT32")

FLOAT == TypeNamed("FLOAT")

CHAR == TypeNamed("CHAR")

SomeFileDataset == FileDataset_init("f", FALSE, "dz", FLOAT, 1).value

DatasetRefs == {PyStr("dy"), SomeFileDataset}

SomeImplicitDimension == ImplicitTarDimensionSpecification("x", INT32, IntervalRange(0, 9, 1))

TarDimensionSpecs ==
  { SomeImplicitDimension,
    ExplicitTarDimensionSpecification("y", PyStr("dy")),
    ExplicitTarDimensionSpecification("z", SomeFileDataset) }

SomeAttribute == TarAttributeSpecification_init("a", FLOAT, 1).value

TarAttributeSpecs == {SomeAttribute, TarAttributeSpecification_init("b", INT32, 2).value}

MetaTypes == {NoneVal, PyStr("mt"), TarMetaType("wt", <<"lat">>, <<"temp">>)}

MappingItems == {<<"x", "lat">>, <<"a", "temp">>}

Mappings ==
  {NoneVal} \cup
  {Dict(items) : items \in
     {s \in SeqsUpTo(MappingItems, Cardinality(MappingItems)) :
        \A i, j \in 1..Len(s) : i # j => s[i][1] # s[j][1]}}

SomeTar == Tar_init("w", <<SomeImplicitDimension>>, <<SomeAttribute>>, NoneVal, NoneVal).value

TarRefs == {PyStr("t"), SomeTar}

Literals ==
  {Literal(values, data_type) :
     values \in SeqsUpTo({PyInt(1), PyInt(2), PyStr("p")}, MaxValues),
     data_type \in SavimeSupportedTypes}

Ranges ==
  {r.value : r \in
     {r \in {Range_init(start, stop, step, num_repetitions) :
               start \in Ints, stop \in Ints, step \in Ints, num_repetitions \in Ints} :
        r.raised = "none"}}

SubTarDimensionClasses ==
  {"OrderedSubTarDimensionSpecification", "PartialSubTarDimensionSpecification",
   "TotalSubTarDimensionSpecification"}

SubTarDimensionSpecs ==
  { OrderedSubTarDimensionSpecification(PyStr("x"), IndexRange(1, 90, FALSE)),
    PartialSubTarDimensionSpecification(PyStr("dy"), SomeImplicitDimension,
                                        IndexRange(0, 4, TRUE)),
    TotalSubTarDimensionSpecification(SomeFileDataset, PyStr("z"),
                                      IndexRange(2, 3, FALSE)) }

SubTarAttributeSpecs ==
  { SubTarAttributeSpecification(PyStr("a"), PyStr("dy")),
    SubTarAttributeSpecification(SomeAttribute, SomeFileDataset) }

ArgValues == {PyStr("a"), PyInt(1)}

AttributeRefs == {PyStr("a"), PyStr("c"), SomeAttribute}

DimSizePairs ==
  {<<dim, dim_size>> : dim \in {PyStr("x"), PyStr("q"), SomeImplicitDimension},
                       dim_size \in 1..MaxInt}

(***************************************************************************)
(* The blocks and frames a client converts.  Coordinates repeat and come   *)
(* in any order; the attribute values of a block are pairwise distinct, so *)
(* a value shows the row and the column it came from.                      *)
(***************************************************************************)
Coords == {0, 1}

UnsetValues == {0, 7}

\* A dimension array as the engine's results have it: one column.
column_of(data) == NdArray(<<Len(data), 1>>, data)

BlockDimsOf(n) ==
  {OrderedDict(<< <<"x", column_of(xs)>> >>) : xs \in [1..n -> Coords]}
    \cup {OrderedDict(<< <<"x", column_of(xs)>>, <<"y", column_of(ys)>> >>) :
            xs \in [1..n -> Coords], ys \in [1..n -> Coords]}

vector_of(k) == NdArray(<<k>>, [r \in 1..k |-> 10 * r])

matrix_of(k) ==
  NdArray(<<k, 2>>, [i \in 1..(2 * k) |-> 100 * (((i - 1) \div 2) + 1) + ((i - 1) % 2)])

BlockAttrsOf(k) ==
  { OrderedDict(<<>>),
    OrderedDict(<< <<"v", vector_of(k)>> >>),
    OrderedDict(<< <<"v", column_of(vector_of(k).data)>> >>),
    OrderedDict(<< <<"m", matrix_of(k)>> >>),
    OrderedDict(<< <<"v", vector_of(k)>>, <<"m", matrix_of(k)>> >>) }

\* Blocks of two rows with one attribute.
SomeBlocks ==
  {b.value : b \in
     {b \in {DataVariableBlock_new(dims, attrs) :
               dims \in BlockDimsOf(2),
               attrs \in {a \in BlockAttrsOf(2) : Len(a.items) = 1}} : b.raised = "none"}}

\* Frames a client builds itself: a plain or composite row index, named or not.
ClientFrames ==
  {f.value : f \in
     {DataFrame(column_of(<<10, 20>>), index, Index(<<"v">>, NoneVal)) :
        index \in {Index(labels, name) :
                     labels \in [1..2 -> Coords], name \in {NoneVal, PyStr("x")}}
                  \cup {MultiIndex_from_arrays(<<labels, <<1, 0>> >>, <<PyStr("x"), name>>) :
                          labels \in [1..2 -> Coords], name \in {NoneVal, PyStr("y")}}}}

\* The DataVariables a client builds: dimension and attribute variables of
\* one or two rows, and a dimension variable of two columns.
SomeDataVariables ==
  {v.value : v \in
     {DataVariable_new("x", column_of(<<0, 1>>), TRUE),
      DataVariable_new("x", column_of(<<1>>), TRUE),
      DataVariable_new("y", column_of(<<1, 1>>), TRUE),
      DataVariable_new("x", matrix_of(2), TRUE),
      DataVariable_new("v", vector_of(2), FALSE),
      DataVariable_new("v", vector_of(1), FALSE),
      DataVariable_new("m", matrix_of(2), FALSE)}}

\* The sequences of DataVariables a block is built from: those that are
\* refused and those that give a block with a dimension and an attribute.
DataVariableSeqs ==
  {vs \in SeqsUpTo(SomeDataVariables, 2) :
     LET r == DataVariableBlock_new_from_data_variables(vs)
     IN r.raised = "none" => Len(r.value.dims.items) > 0 /\ Len(r.value.attrs.items) > 0}

\* The blocks a client concatenates: of one and two rows, with the attribute
\* v as a vector, a column or a matrix, with other names, with the names in
\* another order, and one without dimensions.
BlocksToConcatenate ==
  {b.value : b \in
     {DataVariableBlock_new(OrderedDict(dims), OrderedDict(attrs)) :
        dims \in {<< <<"x", column_of(<<1, 0>>)>> >>},
        attrs \in {<< <<"v", vector_of(2)>> >>,
                   << <<"v", column_of(<<10, 20>>)>> >>,
                   << <<"v", matrix_of(2)>> >>,
                   << <<"w", vector_of(2)>> >>,
                   << <<"v", vector_of(2)>>, <<"m", matrix_of(2)>> >>,
                   << <<"m", matrix_of(2)>>, <<"v", vector_of(2)>> >>}}
     \cup {DataVariableBlock_new(OrderedDict(<< <<"x", column_of(<<1>>)>> >>),
                                 OrderedDict(<< <<"v", vector_of(1)>> >>)),
           DataVariableBlock_new(OrderedDict(<< <<"x", column_of(<<0, 1>>)>>,
                                                <<"y", column_of(<<1, 1>>)>> >>),
                                 OrderedDict(<< <<"v", vector_of(2)>> >>)),
           DataVariableBlock_new(OrderedDict(<< <<"y", column_of(<<0>>)>>,
                                                <<"x", column_of(<<1>>)>> >>),
                                 OrderedDict(<< <<"v", vector_of(1)>> >>)),
           DataVariableBlock_new_from_data_variables(
             <<DataVariable_new("v", vector_of(2), FALSE).value>>)}}

TargetTypes == {"pandas", "xarray", "numpy"}

\* What np.empty can have left in the array of each attribute, from the j-th
\* on; it matters only where cells stay unset.
RECURSIVE UnsetsFrom(_, _)
UnsetsFrom(data_variable_block, j) ==
  IF j > Len(data_variable_block.attrs.items) THEN {<<>>}
  ELSE {<<unset>> \o rest :
          unset \in IF unset_cells(attr_layout(data_variable_block,
                                               data_variable_block.attrs.items[j][2])) = {}
                    THEN {0} ELSE UnsetValues,
          rest \in UnsetsFrom(data_variable_block, j + 1)}

(***************************************************************************)
(* The calls a client makes: it constructs one schema object and calls its *)
(* serialization methods, or calls one command function.                   *)
(***************************************************************************)
Fresh == called.op = "none"

\* What a constructor call leaves behind: the object, or the exception.
Construct(op, args, r) ==
  /\ called' = [op |-> op, args |-> args]
  /\ element' = r.value
  /\ raised' = r.raised
  /\ query' = <<>>
  /\ raised_args' = <<>>
  /\ UNCHANGED <<converted, available_converters, effects, splitter>>

\* What a method call on the element leaves behind: the string returned.
Return(op, q) ==
  /\ called' = [op |-> op, args |-> <<>>]
  /\ query' = q
  /\ raised' = "none"
  /\ raised_args' = <<>>
  /\ UNCHANGED <<element, converted, available_converters, effects, splitter>>

\* The same for a method that may raise.
ReturnOrRaise(op, r) ==
  /\ called' = [op |-> op, args |-> <<>>]
  /\ query' = IF r.raised = "none" THEN r.value ELSE <<>>
  /\ raised' = r.raised
  /\ raised_args' = <<>>
  /\ UNCHANGED <<element, converted, available_converters, effects, splitter>>

\* What a command function leaves behind.
Command(op, args, r) ==
  /\ called' = [op |-> op, args |-> args]
  /\ query' = IF r.raised = "none" THEN r.value ELSE <<>>
  /\ raised' = r.raised
  /\ raised_args' = <<>>
  /\ UNCHANGED <<element, converted, available_converters, effects, splitter>>

NewRange ==
  /\ Fresh
  /\ \E start \in Ints, stop \in Ints, step \in Ints, num_repetitions \in Ints :
       Construct("Range", <<start, stop, step, num_repetitions>>,
                 Range_init(start, stop, step, num_repetitions))

NewFileDataset ==
  /\ Fresh
  /\ \E file_path \in {"f"}, is_in_savime_storage \in BOOLEAN, name \in Names,
        data_type \in SavimeSupportedTypes, num_columns \in Ints :
       Construct("FileDataset",
                 <<file_path, is_in_savime_storage, name, data_type, num_columns>>,
                 FileDataset_init(file_path, is_in_savime_storage, name, data_type,
                                  num_columns))

NewLiteralDataset ==
  /\ Fresh
  /\ \E name \in Names, literal \in Literals, num_columns \in 0..MaxInt,
        data_type \in {NoneVal} \cup SavimeSupportedTypes :
       Construct("LiteralDataset", <<name, literal, num_columns, data_type>>,
                 LiteralDataset_init(name, literal, num_columns, data_type))

CallLiteralDataset ==
  /\ Fresh
  /\ \E name \in Names, literal \in Literals, length \in 0..MaxInt :
       Construct("literal_dataset", <<name, literal.values, literal.data_type, length>>,
                 literal_dataset(name, literal.values, literal.data_type, length))

NewRangeDataset ==
  /\ Fresh
  /\ \E name \in Names, range \in Ranges, data_type \in SavimeSupportedTypes :
       Construct("RangeDataset", <<name, range, data_type>>,
                 RangeDataset_init(name, range, data_type))

CallDatasetCreateQueryStr ==
  /\ element.cls \in DatasetClasses
  /\ Return("Dataset.create_query_str", Dataset_create_query_str(element))

NewTar ==
  /\ Fresh
  /\ \E name \in Names, dimension_specification \in SeqsUpTo(TarDimensionSpecs, MaxSpecs),
        attribute_specification \in SeqsUpTo(TarAttributeSpecs, MaxSpecs),
        meta_type \in MetaTypes, meta_type_mapping \in Mappings :
       Construct("Tar",
                 <<name, dimension_specification, attribute_specification, meta_type,
                   meta_type_mapping>>,
                 Tar_init(name, dimension_specification, attribute_specification,
                          meta_type, meta_type_mapping))

CallTarCreateQueryStr ==
  /\ element.cls = "Tar"
  /\ ReturnOrRaise("Tar.create_query_str", Tar_create_query_str(element))

NewSubTarDimensionSpecification ==
  /\ Fresh
  /\ \E cls \in SubTarDimensionClasses, dataset \in DatasetRefs,
        dimension \in {PyStr("x"), SomeImplicitDimension},
        start \in Ints, stop \in Ints, is_physical \in BOOLEAN :
       LET index_range == IndexRange(start, stop, is_physical)
       IN IF cls = "OrderedSubTarDimensionSpecification"
          THEN Construct(cls, <<dimension, index_range>>,
                         Ok(OrderedSubTarDimensionSpecification(dimension, index_range)))
          ELSE Construct(cls, <<dataset, dimension, index_range>>,
                         Ok(SpecifiedByDatasetSubTarDimensionSpecification_init(
                              cls, dataset, dimension, index_range)))

CallSubTarDimensionPlainQueryStr ==
  /\ element.cls \in SubTarDimensionClasses
  /\ Return("SubTarDimensionSpecification.plain_query_str",
            SubTarDimensionSpecification_plain_query_str(element))

NewSubTar ==
  /\ Fresh
  /\ \E tar \in TarRefs,
        dimension_specification \in SeqsUpTo(SubTarDimensionSpecs, MaxSpecs),
        attribute_specification \in SeqsUpTo(SubTarAttributeSpecs, MaxSpecs) :
       Construct("SubTar", <<tar, dimension_specification, attribute_specification>>,
                 Ok(SubTar(tar, dimension_specification, attribute_specification)))

CallSubTarLoadQueryStr ==
  /\ element.cls = "SubTar"
  /\ Return("SubTar.load_query_str", SubTar_load_query_str(element))

CallAggregate ==
  /\ Fresh
  /\ \E tar \in TarRefs, args \in SeqsUpTo(ArgValues, MaxArgs) :
       Command("aggregate", <<tar, args>>, aggregate(tar, args))

CallSelect ==
  /\ Fresh
  /\ \E tar \in TarRefs, data_elements \in SeqsUpTo(ArgValues, MaxArgs) :
       Command("select", <<tar, data_elements>>, select(tar, data_elements))

CallWhere ==
  /\ Fresh
  /\ \E tar \in TarRefs, logical_predicate \in ArgValues :
       Command("where", <<tar, logical_predicate>>, where(tar, logical_predicate))

CallSubset ==
  /\ Fresh
  /\ \E tar \in TarRefs, dims \in SeqsUpTo(ArgValues, MaxArgs) :
       Command("subset", <<tar, dims>>, subset(tar, dims))

CallDerive ==
  /\ Fresh
  /\ \E tar \in TarRefs, new_attribute_name \in ArgValues,
        arithmetic_expression \in ArgValues :
       Command("derive", <<tar, new_attribute_name, arithmetic_expression>>,
               derive(tar, new_attribute_name, arithmetic_expression))

CallCross ==
  /\ Fresh
  /\ \E left_tar \in TarRefs, right_tar \in TarRefs :
       Command("cross", <<left_tar, right_tar>>, cross(left_tar, right_tar))

CallDimJoin ==
  /\ Fresh
  /\ \E left_tar \in TarRefs, right_tar \in TarRefs,
        tar_dims \in SeqsUpTo(ArgValues, MaxArgs) :
       Command("dim_join", <<left_tar, right_tar, tar_dims>>,
               dim_join(left_tar, right_tar, tar_dims))

CallRegisterModel ==
  /\ Fresh
  /\ \E model_name \in {"m"}, model_tar \in TarRefs, input_attribute \in AttributeRefs,
        dim_specification \in SeqsUpTo(DimSizePairs, MaxSpecs) :
       Command("register_model",
               <<model_name, model_tar, input_attribute, dim_specification>>,
               register_model(model_name, model_tar, input_attribute, dim_specification))

\* What a conversion leaves behind: the converted value or the exception.
Convert(op, args, r) ==
  /\ called' = [op |-> op, args |-> args]
  /\ converted' = r.value
  /\ raised' = r.raised
  /\ raised_args' = <<>>
  /\ query' = <<>>
  /\ UNCHANGED <<available_converters, effects, splitter>>

NewDataVariableBlock ==
  /\ Fresh
  /\ \E n \in 1..MaxRows, k \in 1..MaxRows :
       /\ k \in {n, 1, 2}
       /\ \E dims \in BlockDimsOf(n), attrs \in BlockAttrsOf(k) :
            Construct("DataVariableBlock", <<dims, attrs>>,
                      DataVariableBlock_new(dims, attrs))

NewDataVariable ==
  /\ Fresh
  /\ \E name \in {"x", "v"}, is_dimension \in BOOLEAN,
        array \in {column_of(<<0, 1>>), vector_of(2), matrix_of(2),
                   NdArray(<<1, 1, 1>>, <<0>>)} :
       Construct("DataVariable", <<name, array, is_dimension>>,
                 DataVariable_new(name, array, is_dimension))

NewDataVariableBlockFromDataVariables ==
  /\ Fresh
  /\ \E data_variables \in DataVariableSeqs :
       Construct("DataVariableBlock(data_variables)", <<data_variables>>,
                 DataVariableBlock_new_from_data_variables(data_variables))

CallConcatenate ==
  /\ Fresh
  /\ \E data_variable_blocks \in SeqsUpTo(BlocksToConcatenate, MaxBlocks) :
       Convert("DataVariableBlockOps.concatenate", <<data_variable_blocks>>,
               DataVariableBlockOps_concatenate(data_variable_blocks))
  /\ UNCHANGED element

NewDataFrame ==
  /\ Fresh
  /\ \E data_frame \in ClientFrames :
       Construct("DataFrame", <<data_frame>>, Ok(data_frame))

CallDataVariableBlockToPandasDataFrame ==
  /\ element.cls = "DataVariableBlock"
  /\ Convert("DataVariableBlockToPandasDataFrame", <<element>>,
             DataVariableBlockToPandasDataFrame_call(element))
  /\ element' = DataVariableBlockToPandasDataFrame_block_after(element)

CallDataVariableBlockToXarrayDataset ==
  /\ element.cls = "DataVariableBlock"
  /\ \E unsets \in UnsetsFrom(element, 1) :
       Convert("DataVariableBlockToXarrayDataset", <<element>>,
               DataVariableBlockToXarrayDataset_call(element, unsets))
  /\ UNCHANGED element

\* The frame converted back is the client's own or the one just converted to.
CallPandasDataFrameToDataVariableBlock ==
  /\ \E data_frame \in {f \in {element, converted} : f.cls = "DataFrame"},
        codes_have_values \in BOOLEAN :
       Convert("PandasDataFrameToDataVariableBlock", <<data_frame>>,
               PandasDataFrameToDataVariableBlock_call(data_frame, codes_have_values))
  /\ UNCHANGED element

NewDataVariableBlockConverter ==
  /\ Fresh
  /\ \E target_type \in TargetTypes :
       LET r == DataVariableBlockConverter_init(available_converters, target_type)
       IN /\ called' = [op |-> "DataVariableBlockConverter", args |-> <<target_type>>]
          /\ element' = r.value
          /\ raised' = r.raised
          /\ raised_args' = IF r.raised = "none" THEN <<>> ELSE r.args
          /\ UNCHANGED <<query, converted, available_converters, effects, splitter>>

CallDataVariableBlockConverter ==
  /\ element.cls = "DataVariableBlockConverter"
  /\ \E data_variable_block \in SomeBlocks :
       \E unsets \in UnsetsFrom(data_variable_block, 1) :
         Convert("DataVariableBlockConverter.__call__", <<data_variable_block>>,
                 DataVariableBlockConverter_call(element, data_variable_block, unsets))
  /\ UNCHANGED element

Init ==
  /\ element = NoneVal
  /\ query = <<>>
  /\ raised = "none"
  /\ called = [op |-> "none", args |-> <<>>]
  /\ converted = NoneVal
  /\ raised_args = <<>>
  /\ available_converters = [pandas |-> "DataVariableBlockToPandasDataFrame",
                             xarray |-> "DataVariableBlockToXarrayDataset"]
  /\ effects = <<>>
  /\ splitter = NoneVal

Next ==
  \/ NewRange
  \/ NewFileDataset
  \/ NewLiteralDataset
  \/ CallLiteralDataset
  \/ NewRangeDataset
  \/ CallDatasetCreateQueryStr
  \/ NewTar
  \/ CallTarCreateQueryStr
  \/ NewSubTarDimensionSpecification
  \/ CallSubTarDimensionPlainQueryStr
  \/ NewSubTar
  \/ CallSubTarLoadQueryStr
  \/ CallAggregate
  \/ CallSelect
  \/ CallWhere
  \/ CallSubset
  \/ CallDerive
  \/ CallCross
  \/ CallDimJoin
  \/ CallRegisterModel

Spec == Init /\ [][Next]_vars

\* The calls on the result converters.
ConverterNext ==
  \/ NewDataVariableBlock
  \/ NewDataVariable
  \/ NewDataVariableBlockFromDataVariables
  \/ CallConcatenate
  \/ NewDataFrame
  \/ CallDataVariableBlockToPandasDataFrame
  \/ CallDataVariableBlockToXarrayDataset
  \/ CallPandasDataFrameToDataVariableBlock
  \/ NewDataVariableBlockConverter
  \/ CallDataVariableBlockConverter

ConverterSpec == Init /\ [][ConverterNext]_vars

(***************************************************************************)
(* The calls on a command runner and on numpy_array_to_savime_dataset.     *)
(* effects is what reached the connector and the file system, in order.    *)
(***************************************************************************)
\* What the connector may answer to a command.
Responses == {[cls |-> "QueryResponse", blocks |-> n] : n \in {"none", "some"}}

SomeSubTar == SubTar(SomeTar, <<>>, <<SubTarAttributeSpecification(SomeAttribute, SomeFileDataset)>>)

RunnerDimSpecifications == SeqsUpTo({<<"x", 1>>, <<"y", 2>>}, MaxSpecs)

Executed(command, response) ==
  [kind |-> "execute", command |-> command, element |-> NoneVal, response |-> response]

Written(path) ==
  [kind |-> "tofile", command |-> path, element |-> NoneVal, response |-> NoneVal]

Created(savime_element) ==
  [kind |-> "create", command |-> <<>>, element |-> savime_element, response |-> NoneVal]

\* self.execute(cmd) as the last statement of a runner method: r is the command, or
\* the exception raised before execute is reached.
Execute(op, args, r) ==
  /\ Len(effects) < MaxCalls
  /\ called' = [op |-> op, args |-> args]
  /\ \E response \in Responses :
       /\ effects' = IF r.raised = "none" THEN Append(effects, Executed(r.value, response))
                     ELSE effects
       /\ converted' = IF r.raised = "none" THEN response ELSE NoneVal
  /\ raised' = r.raised
  /\ raised_args' = <<>>
  /\ query' = <<>>
  /\ UNCHANGED <<element, available_converters, splitter>>

NewCommandRunner ==
  /\ Fresh
  /\ Construct("CommandRunner", <<>>, Ok(CommandRunner_init([cls |-> "Client"])))

CallRunnerCreate ==
  /\ element.cls = "CommandRunner"
  /\ \E savime_element \in {SomeTar, SomeFileDataset} :
       Execute("CommandRunner.create", <<savime_element>>,
               CommandRunner_create(element, savime_element))

CallRunnerLoad ==
  /\ element.cls = "CommandRunner"
  /\ \E savime_element \in {SomeSubTar} :
       Execute("CommandRunner.load", <<savime_element>>,
               CommandRunner_load(element, savime_element))

CallRunnerDropTar ==
  /\ element.cls = "CommandRunner"
  /\ \E name \in Names :
       Execute("CommandRunner.drop_tar", <<PyStr(name)>>, CommandRunner_drop_tar(element, name))

CallRunnerDropDataset ==
  /\ element.cls = "CommandRunner"
  /\ \E name \in Names :
       Execute("CommandRunner.drop_dataset", <<PyStr(name)>>,
               CommandRunner_drop_dataset(element, name))

\* runner.drop_type(name), and the call that passes a runner by hand.
CallRunnerDropType ==
  /\ element.cls = "CommandRunner"
  /\ \E name \in Names :
       \E args \in {<<PyStr(name)>>, <<element, PyStr(name)>>} :
         Execute("CommandRunner.drop_type", args, CommandRunner_drop_type(args))

CallRunnerRegisterModel ==
  /\ element.cls = "CommandRunner"
  /\ \E model_name \in {"m"}, model_tar \in {"t"}, input_attribute \in {"a"},
        dim_specification \in RunnerDimSpecifications :
       Execute("CommandRunner.register_model",
               <<PyStr(model_name), PyStr(model_tar), PyStr(input_attribute)>>,
               CommandRunner_register_model(element, model_name, model_tar, input_attribute,
                                            dim_specification))

CallRunnerPredict ==
  /\ element.cls = "CommandRunner"
  /\ \E tar \in {"t"}, model_name \in {"m"}, input_attribute \in {"a"} :
       Execute("CommandRunner.predict",
               <<PyStr(tar), PyStr(model_name), PyStr(input_attribute)>>,
               CommandRunner_predict(element, tar, model_name, input_attribute))

\* The arrays and directories handed to numpy_array_to_savime_dataset.
ArraysToStore ==
  { NdArray(<<2>>, <<1, 2>>), NdArray(<<2, 1>>, <<1, 2>>), NdArray(<<2, 2>>, <<1, 2, 3, 4>>),
    NdArray(<<1, 3>>, <<1, 2, 3>>), NdArray(<<1, 1, 2>>, <<1, 2>>) }

DirectoryPaths == {<<"/", "s">>, <<"/", "s", "/", "d">>, <<"/", "s", "2">>, <<"/", "o">>}

StorageDirectoryPaths == {<<"/", "s">>, <<"/", "s", "/">>}

CallNumpyArrayToSavimeDataset ==
  /\ Fresh
  /\ \E array \in ArraysToStore, dtype \in {"int32", "float32"}, dataset_name \in Names,
        dataset_dir_path \in DirectoryPaths,
        savime_storage_dir_path \in StorageDirectoryPaths :
       LET r == numpy_array_to_savime_dataset(array, dtype, dataset_name, dataset_dir_path,
                                              savime_storage_dir_path)
       IN /\ called' = [op |-> "numpy_array_to_savime_dataset",
                        args |-> <<array, PyStr(dtype), PyStr(dataset_name),
                                   [cls |-> "path", value |-> dataset_dir_path],
                                   [cls |-> "path", value |-> savime_storage_dir_path]>>]
          /\ effects' = effects \o [i \in 1..Len(r.written) |-> Written(r.written[i])]
                                \o [i \in 1..Len(r.created) |-> Created(r.created[i])]
          /\ converted' = r.value
          /\ raised' = r.raised
  /\ raised_args' = <<>>
  /\ query' = <<>>
  /\ UNCHANGED <<element, available_converters, splitter>>

RunnerNext ==
  \/ NewCommandRunner
  \/ CallRunnerCreate
  \/ CallRunnerLoad
  \/ CallRunnerDropTar
  \/ CallRunnerDropDataset
  \/ CallRunnerDropType
  \/ CallRunnerRegisterModel
  \/ CallRunnerPredict
  \/ CallNumpyArrayToSavimeDataset

RunnerSpec == Init /\ [][RunnerNext]_vars

(***************************************************************************)
(* One call of RandomDatasetSplitter.get_random_slices, statement by       *)
(* statement: every np.random.randint draw is a step of its own.           *)
(***************************************************************************)
\* The number of cells of an array of the given shape.
RECURSIVE size_of(_)
size_of(shape) == IF shape = <<>> THEN 1 ELSE Head(shape) * size_of(Tail(shape))

\* Shapes of arrays of at most MaxSize cells; a dimension of length 2 is too short
\* to cut.
Shapes ==
  {shape \in UNION {[1..k -> 2..MaxDimLength] : k \in 1..MaxRank} : size_of(shape) <= MaxSize}

\* max_inner_cuts as the caller gives it: an int, or a list of ints.
MaxInnerCutsArguments(shape) ==
  {[is_list |-> FALSE, value |-> <<c>>] : c \in 0..MaxCuts}
    \cup {[is_list |-> TRUE, value |-> [i \in 1..Len(shape) |-> IF i = 1 THEN c ELSE d]] :
            c \in 1..MaxCuts, d \in 1..MaxCuts}
    \cup {[is_list |-> TRUE, value |-> [i \in 1..(Len(shape) + 1) |-> 1]]}

Running(pc) == splitter.cls = "get_random_slices" /\ splitter.pc = pc

SplitterFrame == UNCHANGED <<element, query, converted, raised_args, available_converters, effects>>

\* An exception leaves the call.
SplitterRaises(e) ==
  /\ splitter' = [splitter EXCEPT !.pc = "raised"]
  /\ raised' = e

\* The call up to the first get_dim_random_slices.
CallGetRandomSlices ==
  /\ Fresh
  /\ splitter = NoneVal
  /\ \E shape \in Shapes :
       \E argument \in MaxInnerCutsArguments(shape) :
         LET max_inner_cuts == IF ~argument.is_list
                               THEN [i \in 1..Len(shape) |-> argument.value[1]]
                               ELSE argument.value
             entered == [cls |-> "get_random_slices", pc |-> "num_inner_cuts",
                         shape |-> shape, max_inner_cuts |-> max_inner_cuts,
                         q |-> <<>>, current_slice |-> <<>>, dim |-> 1,
                         num_inner_cuts |-> 0, num_cuts |-> 0, points |-> {},
                         looping |-> FALSE, result |-> <<>>]
         IN IF Len(max_inner_cuts) # Len(shape)
            THEN /\ splitter' = [entered EXCEPT !.pc = "raised"]
                 /\ raised' = "AssertionError"
            ELSE /\ splitter' = entered
                 /\ raised' = "none"
  /\ called' = [op |-> "RandomDatasetSplitter.get_random_slices", args |-> <<>>]
  /\ SplitterFrame

\* get_dim_random_slices up to num_inner_cuts = np.random.randint(0, high)
DrawNumInnerCuts ==
  /\ Running("num_inner_cuts")
  /\ LET dim_length == splitter.shape[splitter.dim]
         max_inner_cuts == splitter.max_inner_cuts[splitter.dim]
         high == num_inner_cuts_high(dim_length, max_inner_cuts)
     IN IF ~(max_inner_cuts >= 0) THEN SplitterRaises("AssertionError")
        ELSE IF ~(0 < high) THEN SplitterRaises("ValueError")
        ELSE /\ \E num_inner_cuts \in 0..(high - 1) :
                  splitter' = [splitter EXCEPT !.pc = "point",
                                               !.num_inner_cuts = num_inner_cuts,
                                               !.num_cuts = 0, !.points = {}]
             /\ UNCHANGED raised
  /\ UNCHANGED called
  /\ SplitterFrame

\* One turn of the while loop: point = np.random.randint(1, dim_length - 2)
DrawPoint ==
  /\ Running("point")
  /\ splitter.num_cuts < splitter.num_inner_cuts
  /\ LET dim_length == splitter.shape[splitter.dim]
     IN IF ~(1 < dim_length - 2) THEN SplitterRaises("ValueError")
        ELSE /\ \E point \in 1..(dim_length - 3) :
                  LET len_bf == Cardinality(splitter.points)
                      points == splitter.points \cup {point}
                  IN splitter' = [splitter EXCEPT
                                    !.points = points,
                                    !.num_cuts = IF len_bf < Cardinality(points)
                                                 THEN @ + 1 ELSE @]
             /\ UNCHANGED raised
  /\ UNCHANGED called
  /\ SplitterFrame

\* The loop is left, the slices are built and the caller pushes each of them.
PushSlices ==
  /\ Running("point")
  /\ ~(splitter.num_cuts < splitter.num_inner_cuts)
  /\ LET slices == slices_of_points(splitter.points, splitter.shape[splitter.dim])
     IN splitter' = [splitter EXCEPT
                       !.q = push_slices(@, splitter.current_slice, slices),
                       !.pc = "front", !.looping = TRUE]
  /\ UNCHANGED <<called, raised>>
  /\ SplitterFrame

\* The head of the while True loop: q.front(), then q.pop() or break and
\* return list(q).
FrontOfQueue ==
  /\ Running("front")
  /\ IF Queue_empty(splitter.q) THEN SplitterRaises("IndexError")
     ELSE LET current_slice == Queue_front(splitter.q)
              current_dimension == Len(current_slice)
          IN /\ splitter' = IF current_dimension < Len(splitter.shape)
                            THEN [splitter EXCEPT !.q = Queue_pop(@),
                                                  !.current_slice = current_slice,
                                                  !.dim = current_dimension + 1,
                                                  !.pc = "num_inner_cuts"]
                            ELSE [splitter EXCEPT !.pc = "done", !.looping = FALSE,
                                                  !.result = splitter.q]
             /\ UNCHANGED raised
  /\ UNCHANGED called
  /\ SplitterFrame

SplitterNext ==
  \/ CallGetRandomSlices
  \/ DrawNumInnerCuts
  \/ DrawPoint
  \/ PushSlices
  \/ FrontOfQueue

SplitterSpec == Init /\ [][SplitterNext]_vars

\* A draw of a point that is already in the set changes nothing; a random source
\* does not return such points forever, and a statement that can run does.
SplitterFairSpec == SplitterSpec /\ WF_vars(SplitterNext)

(***************************************************************************)
(* Reading a command string back: what the engine's parser sees.           *)
(***************************************************************************)
\* Whether sep is a prefix of s.
StartsWith(s, sep) == Len(s) >= Len(sep) /\ SubSeq(s, 1, Len(sep)) = sep

\* Where the separator sep (a token sequence) occurs in s.
SeparatorsAt(s, sep) ==
  {i \in 1..(Len(s) - Len(sep) + 1) : SubSeq(s, i, i + Len(sep) - 1) = sep}

\* s cut at every occurrence of the separator, as str.split cuts it.
SplitOn(s, sep) ==
  LET at == SeparatorsAt(s, sep)
      k == Cardinality(at)
      pos(j) == IF j = 0 THEN 1 - Len(sep)
                ELSE IF j = k + 1 THEN Len(s) + 1
                ELSE CHOOSE p \in at : Cardinality({q \in at : q < p}) = j - 1
  IN [j \in 1..(k + 1) |-> SubSeq(s, pos(j - 1) + Len(sep), pos(j) - 1)]

\* The fragments of a pipe-delimited field; an empty field holds none.
Fragments(field) == IF field = <<>> THEN <<>> ELSE SplitOn(field, <<" ", "|", " ">>)

\* The contents of the double-quoted fields of s, in order.
QuotedFields(s) ==
  LET parts == SplitOn(s, <<"\"">>)
  IN [k \in 1..((Len(parts) - 1) \div 2) |-> parts[2 * k]]

\* A field without the one space that may lead it.
StripLeadingSpace(f) == IF f # <<>> /\ Head(f) = " " THEN Tail(f) ELSE f

\* The comma-separated fields of a fragment.
CommaFields(fragment) ==
  LET parts == SplitOn(fragment, <<",">>)
  IN [k \in 1..Len(parts) |-> StripLeadingSpace(parts[k])]

Serialized(op) == called.op = op /\ raised = "none"

(***************************************************************************)
(* C1: the string returned by Tar.create_query_str holds, in its third     *)
(* quoted field, exactly one fragment per dimension specification and, in  *)
(* its fourth, exactly one per attribute specification, separated by       *)
(* ' | '; the i-th fragment is the serialization of the i-th specification *)
(* the caller supplied, equal specifications included.                     *)
(***************************************************************************)
C1_FragmentsInInputOrder ==
  Serialized("Tar.create_query_str") =>
    LET fields == QuotedFields(query)
        dims == element.dimension_specification
        attrs == element.attribute_specification
    IN /\ Len(fields) >= 4
       /\ Fragments(fields[3]) =
            [i \in 1..Len(dims) |-> TarDimensionSpecification_plain_query_str(dims[i])]
       /\ Fragments(fields[4]) =
            [i \in 1..Len(attrs) |-> TarAttributeSpecification_plain_query_str(attrs[i])]

C1_Witness ==
  /\ Serialized("Tar.create_query_str")
  /\ Len(element.dimension_specification) = 2
  /\ element.dimension_specification[1] = element.dimension_specification[2]
  /\ Len(element.attribute_specification) = 2
  /\ element.attribute_specification[1] # element.attribute_specification[2]
  /\ Len(Fragments(QuotedFields(query)[3])) = 2

(***************************************************************************)
(* C2: Tar.create_query_str returns exactly                                *)
(* CREATE_TAR("name", "meta", "dims", "attrs"[, "k1, v1, k2, v2"]);        *)
(* the fields separated by ', ', the fifth field present exactly when the  *)
(* Tar has a meta type, and nothing else before the closing ');'.          *)
(***************************************************************************)
C2_Expected(tar) ==
  LET items == tar.meta_type_mapping.items
  IN <<"CREATE_TAR", "(", "\"", tar.name, "\"", ",", " ">>
       \o <<"\"", (IF tar.meta_type = NoneVal THEN "*"
                   ELSE IF tar.meta_type.cls = "str" THEN tar.meta_type.value
                   ELSE tar.meta_type.name), "\"", ",", " ">>
       \o <<"\"">> \o Tar_dimension_specification_str(tar) \o <<"\"", ",", " ">>
       \o <<"\"">> \o Tar_attribute_specification_str(tar) \o <<"\"">>
       \o (IF tar.meta_type = NoneVal THEN <<>>
           ELSE <<",", " ", "\"">>
                  \o join(<<",", " ">>,
                          [i \in 1..Len(items) |-> <<items[i][1], ",", " ", items[i][2]>>])
                  \o <<"\"">>)
       \o <<")", ";">>

C2_CreateTarBitExact ==
  Serialized("Tar.create_query_str") => query = C2_Expected(element)

(***************************************************************************)
(* C3: Tar(...) raises when exactly one of meta_type and meta_type_mapping *)
(* is given and returns the Tar when both or neither are; so a Tar whose   *)
(* serialization names a meta type other than '*' has a mapping.           *)
(***************************************************************************)
C3_MetaTypeAndMappingTogether ==
  /\ called.op = "Tar" =>
       LET meta_type == called.args[4]
           meta_type_mapping == called.args[5]
       IN IF (meta_type = NoneVal) # (meta_type_mapping = NoneVal)
          THEN raised = "AssertionError" /\ element = NoneVal
          ELSE /\ raised = "none"
               /\ element.cls = "Tar"
               /\ element.meta_type = meta_type
               /\ element.meta_type_mapping = meta_type_mapping
  /\ element.cls = "Tar" =>
       ((element.meta_type = NoneVal) <=> (element.meta_type_mapping = NoneVal))
  /\ called.op = "Tar.create_query_str" =>
       /\ raised = "none"
       /\ QuotedFields(query)[2] # <<"*">> => element.meta_type_mapping # NoneVal

C3_Witness ==
  /\ called.op = "Tar"
  /\ called.args[4] # NoneVal
  /\ called.args[5] = NoneVal
  /\ raised = "AssertionError"
  /\ element = NoneVal

(***************************************************************************)
(* C4: in the fragment of every SubTar dimension specification the start   *)
(* (third field) and the stop (fourth field) both carry the prefix '#'     *)
(* when the IndexRange is logical and neither carries it when it is        *)
(* physical.                                                               *)
(***************************************************************************)
C4_PrefixOnBothOrNeither ==
  Serialized("SubTarDimensionSpecification.plain_query_str") =>
    LET fields == CommaFields(query)
        start == int_str(element.index_range.start)
        stop == int_str(element.index_range.stop)
    IN /\ Len(fields) >= 4
       /\ IF element.index_range.is_physical
          THEN fields[3] = <<start>> /\ fields[4] = <<stop>>
          ELSE fields[3] = <<"#", start>> /\ fields[4] = <<"#", stop>>

C4_Witness ==
  /\ Serialized("SubTarDimensionSpecification.plain_query_str")
  /\ element.cls = "TotalSubTarDimensionSpecification"
  /\ ~element.index_range.is_physical
  /\ CommaFields(query)[4] = <<"#", int_str(element.index_range.stop)>>

(***************************************************************************)
(* C5: the fragment of a SubTar dimension specification is                 *)
(* 'kind, dim_name, [#]start, [#]stop' for ordered and                     *)
(* 'kind, dim_name, [#]start, [#]stop, dataset_name' for partial and       *)
(* total, every field separated by a comma and one space.                  *)
(***************************************************************************)
C5_Expected(spec) ==
  LET prefix == IF spec.index_range.is_physical THEN <<>> ELSE <<"#">>
      kind == CASE spec.cls = "OrderedSubTarDimensionSpecification" -> "ordered"
                [] spec.cls = "PartialSubTarDimensionSpecification" -> "partial"
                [] spec.cls = "TotalSubTarDimensionSpecification" -> "total"
  IN <<kind, ",", " ", spec.dimension_name, ",", " ">>
       \o prefix \o <<int_str(spec.index_range.start), ",", " ">>
       \o prefix \o <<int_str(spec.index_range.stop)>>
       \o (IF kind = "ordered" THEN <<>> ELSE <<",", " ", spec.dataset_name>>)

C5_FragmentLayout ==
  Serialized("SubTarDimensionSpecification.plain_query_str") =>
    query = C5_Expected(element)

(***************************************************************************)
(* C6: SubTar.load_query_str returns exactly                               *)
(* LOAD_SUBTAR("tar_name", "dim fragments", "attr fragments");             *)
(* the fragments joined by ' | ' in the caller's order, the dimensions     *)
(* first, the semicolon included.                                          *)
(***************************************************************************)
C6_Expected(subtar) ==
  LET dims == subtar.dimension_specification
      attrs == subtar.attribute_specification
  IN <<"LOAD_SUBTAR", "(">>
       \o <<"\"", (IF subtar.tar.cls = "Tar" THEN subtar.tar.name ELSE subtar.tar.value),
            "\"", ",", " ">>
       \o <<"\"">>
       \o join(<<" ", "|", " ">>,
               [i \in 1..Len(dims) |-> SubTarDimensionSpecification_plain_query_str(dims[i])])
       \o <<"\"", ",", " ", "\"">>
       \o join(<<" ", "|", " ">>,
               [i \in 1..Len(attrs) |-> SubTarAttributeSpecification_plain_query_str(attrs[i])])
       \o <<"\"", ")", ";">>

C6_LoadSubTarBitExact ==
  Serialized("SubTar.load_query_str") => query = C6_Expected(element)

(***************************************************************************)
(* C7: create_query_str of a dataset returns exactly                       *)
(* CREATE_DATASET("name:type:columns", payload); the payload being the     *)
(* quoted file path, led by '@' exactly when the file is not in the        *)
(* engine's storage, for a FileDataset, the literal(...) expression for a  *)
(* LiteralDataset and the quoted start:step:stop:repetitions for a         *)
(* RangeDataset, whose column count is always 1.                           *)
(***************************************************************************)
C7_Payload(dataset) ==
  CASE dataset.cls = "FileDataset" ->
         IF dataset.is_in_savime_storage
         THEN <<"\"", dataset.file_path, "\"">>
         ELSE <<"\"", "@", dataset.file_path, "\"">>
    [] dataset.cls = "LiteralDataset" ->
         LET values == dataset.literal.values
         IN <<"literal", "(">>
              \o join(<<",">>,
                      [i \in 1..Len(values) |->
                         IF dataset.literal.data_type.name = "CHAR"
                         THEN <<"\"", str(values[i]), "\"">>
                         ELSE <<str(values[i])>>])
              \o <<")">>
    [] dataset.cls = "RangeDataset" ->
         <<"\"", ToString(dataset.range.start), ":", ToString(dataset.range.step), ":",
           ToString(dataset.range.stop), ":", ToString(dataset.range.num_repetitions),
           "\"">>

C7_CreateDatasetBitExact ==
  /\ Serialized("Dataset.create_query_str") =>
       query = <<"CREATE_DATASET", "(", "\"", element.name, ":", element.data_type.value,
                 ":", ToString(element.num_columns), "\"", ",", " ">>
                 \o C7_Payload(element) \o <<")", ";">>
  /\ element.cls = "RangeDataset" => element.num_columns = 1

C7_Witness ==
  /\ Serialized("Dataset.create_query_str")
  /\ element.cls = "FileDataset"
  /\ ~element.is_in_savime_storage
  /\ element.num_columns = 2
  /\ SubSeq(query, Len(query) - 5, Len(query)) = <<"\"", "@", "f", "\"", ")", ";">>

(***************************************************************************)
(* C8, as claimed: LiteralDataset(...) with a declared data type that      *)
(* differs from its literal's fails, and with one that agrees succeeds.    *)
(***************************************************************************)
C8_DeclaredTypeChecked ==
  called.op = "LiteralDataset" /\ called.args[4] # NoneVal /\ called.args[3] > 0 =>
    IF called.args[4] # called.args[2].data_type
    THEN raised # "none" /\ element = NoneVal
    ELSE raised = "none" /\ element.cls = "LiteralDataset"

(***************************************************************************)
(* C8, amended: a LiteralDataset has no data type of its own to declare.   *)
(* Its data_type is its literal's, so none is ever built whose data_type   *)
(* differs from its literal's; a constructor call that passes a data_type  *)
(* raises TypeError whether or not it agrees with the literal's; a call    *)
(* without one succeeds exactly when num_columns > 0 and raises            *)
(* AssertionError otherwise.  literal_dataset gives the declared type to   *)
(* the Literal it builds.                                                  *)
(***************************************************************************)
C8_DataTypeIsTheLiterals ==
  /\ element.cls = "LiteralDataset" => element.data_type = element.literal.data_type
  /\ called.op = "LiteralDataset" =>
       LET name == called.args[1]
           literal == called.args[2]
           num_columns == called.args[3]
           data_type == called.args[4]
       IN IF data_type # NoneVal THEN raised = "TypeError" /\ element = NoneVal
          ELSE IF num_columns > 0
          THEN /\ raised = "none"
               /\ element = [cls |-> "LiteralDataset", name |-> name,
                             data_type |-> literal.data_type,
                             num_columns |-> num_columns, literal |-> literal]
          ELSE raised = "AssertionError" /\ element = NoneVal
  /\ called.op = "literal_dataset" =>
       IF called.args[4] > 0
       THEN /\ raised = "none"
            /\ element.cls = "LiteralDataset"
            /\ element.data_type = called.args[3]
            /\ element.literal = Literal(called.args[2], called.args[3])
       ELSE raised = "AssertionError" /\ element = NoneVal

C8_Witness ==
  /\ called.op = "LiteralDataset"
  /\ called.args[4] = INT32
  /\ called.args[2].data_type = FLOAT
  /\ called.args[3] = 1
  /\ raised = "TypeError"
  /\ element = NoneVal

(***************************************************************************)
(* C9: Range(start, stop, step, num_repetitions) succeeds exactly when     *)
(* 0 <= start < stop and num_repetitions > 0, whatever the step, and then  *)
(* keeps the four values as given; otherwise it raises and builds nothing. *)
(***************************************************************************)
C9_RangeValidation ==
  called.op = "Range" =>
    LET start == called.args[1]
        stop == called.args[2]
        step == called.args[3]
        num_repetitions == called.args[4]
    IN IF 0 <= start /\ start < stop /\ num_repetitions > 0
       THEN /\ raised = "none"
            /\ element = [cls |-> "Range", start |-> start, stop |-> stop,
                          step |-> step, num_repetitions |-> num_repetitions]
       ELSE raised = "AssertionError" /\ element = NoneVal

C9_Witness ==
  /\ called.op = "Range"
  /\ called.args[1] = called.args[2]
  /\ called.args[1] >= 0
  /\ called.args[4] > 0
  /\ raised = "AssertionError"
  /\ element = NoneVal

(***************************************************************************)
(* C10: aggregate(tar, a1..an), n a positive multiple of 4, slices at      *)
(* (n div 4) * 3: the first 3n/4 arguments form n/4 triplets, the last n/4 *)
(* are the group-by names, and the command is AGGREGATE(tar_name, a1, ..., *)
(* an) with every argument once, in input order.                           *)
(***************************************************************************)
C10_AggregateSplit ==
  called.op = "aggregate" /\ Len(called.args[2]) > 0 /\ Len(called.args[2]) % 4 = 0 =>
    LET tar == called.args[1]
        args == called.args[2]
        n == Len(args)
        triplets == aggregate_triplets(args)
    IN /\ raised = "none"
       /\ triplets.raised = "none"
       /\ Len(triplets.value) = n \div 4
       /\ \A k \in 1..(n \div 4) :
            triplets.value[k] = <<args[3 * k - 2], args[3 * k - 1], args[3 * k]>>
       /\ aggregate_dims(args) = [i \in 1..(n \div 4) |-> args[3 * (n \div 4) + i]]
       /\ query = <<"AGGREGATE", "(", (IF tar.cls = "Tar" THEN tar.name ELSE tar.value)>>
                    \o <<",", " ">>
                    \o join(<<",", " ">>, [i \in 1..n |-> <<str(args[i])>>])
                    \o <<")">>

C10_Witness ==
  /\ called.op = "aggregate"
  /\ Len(called.args[2]) = 8
  /\ called.args[2][6] # called.args[2][7]
  /\ raised = "none"
  /\ Len(query) = 3 + 3 * 8 + 1

\* The name a tar reference stands for.
TarNameOf(tar) == IF tar.cls = "Tar" THEN tar.name ELSE tar.value

\* op(tar_name, a1, ..., an): every argument once, in input order.
CommandListing(op, tar, args) ==
  <<op, "(", TarNameOf(tar)>>
    \o <<",", " ">>
    \o join(<<",", " ">>, [i \in 1..Len(args) |-> <<str(args[i])>>])
    \o <<")">>

(***************************************************************************)
(* C11, as stated: for every argument count n that is not a multiple of 4  *)
(* (the 7-argument call included), aggregate returns a command in which    *)
(* all n arguments are the triplets and no group-by field follows.         *)
(***************************************************************************)
C11_AllArgumentsAsTriplets ==
  called.op = "aggregate" /\ Len(called.args[2]) % 4 # 0 =>
    /\ raised = "none"
    /\ query = CommandListing("AGGREGATE", called.args[1], called.args[2])

(***************************************************************************)
(* C11, amended: for n not a multiple of 4 aggregate groups all arguments  *)
(* into triplets.  When n is a multiple of 3 it returns AGGREGATE(tar_name,*)
(* a1, ..., an), the n/3 successive triplets and no group-by field; when   *)
(* it is not (n = 7 for one) the grouping fails with an AssertionError and *)
(* no command is returned.                                                 *)
(***************************************************************************)
C11_TripletsOrFailure ==
  called.op = "aggregate" /\ Len(called.args[2]) % 4 # 0 =>
    LET args == called.args[2]
        n == Len(args)
        triplets == aggregate_all_triplets(args)
    IN IF n % 3 = 0
       THEN /\ raised = "none"
            /\ triplets.raised = "none"
            /\ Len(triplets.value) = n \div 3
            /\ \A k \in 1..(n \div 3) :
                 triplets.value[k] = <<args[3 * k - 2], args[3 * k - 1], args[3 * k]>>
            /\ query = CommandListing("AGGREGATE", called.args[1], args)
       ELSE /\ raised = "AssertionError"
            /\ query = <<>>

C11_Witness ==
  /\ called.op = "aggregate"
  /\ Len(called.args[2]) = 7
  /\ called.args[2][7] = PyStr("a")
  /\ raised = "AssertionError"
  /\ query = <<>>

(***************************************************************************)
(* C12: subset groups its positional arguments by 3 and dim_join its       *)
(* trailing arguments by 2.  A count that the group size does not divide   *)
(* fails with an AssertionError and returns no command; otherwise the      *)
(* command is SUBSET(tar_name, a1, ..., an), or DIMJOIN(left_name,         *)
(* right_name, a1, ..., an), with every argument once, in input order.     *)
(***************************************************************************)
C12_GroupingFailsOrListsAll ==
  /\ called.op = "subset" =>
       LET dims == called.args[2]
       IN IF Len(dims) % 3 # 0
          THEN raised = "AssertionError" /\ query = <<>>
          ELSE raised = "none" /\ query = CommandListing("SUBSET", called.args[1], dims)
  /\ called.op = "dim_join" =>
       LET tar_dims == called.args[3]
       IN IF Len(tar_dims) % 2 # 0
          THEN raised = "AssertionError" /\ query = <<>>
          ELSE /\ raised = "none"
               /\ query = <<"DIMJOIN", "(", TarNameOf(called.args[1]), ",", " ",
                            TarNameOf(called.args[2]), ",", " ">>
                            \o join(<<",", " ">>,
                                    [i \in 1..Len(tar_dims) |-> <<str(tar_dims[i])>>])
                            \o <<")">>

C12_Witness ==
  /\ called.op = "subset"
  /\ Len(called.args[2]) = 5
  /\ raised = "AssertionError"
  /\ query = <<>>

(***************************************************************************)
(* C13: select(tar, e1, ..., ek) with k >= 1 data element names returns    *)
(* SELECT(tar_name, e1, ..., ek): every data element the caller passed is  *)
(* in the command, in input order, a single one included.                  *)
(***************************************************************************)
C13_SelectListsEveryElement ==
  /\ called.op = "select"
  /\ Len(called.args[2]) >= 1
  /\ \A i \in 1..Len(called.args[2]) : called.args[2][i].cls = "str"
  => /\ raised = "none"
     /\ query = CommandListing("SELECT", called.args[1], called.args[2])

\* The bare name in place of a tar reference.
AsName(tar) == PyStr(TarNameOf(tar))

\* The call left behind what r is: the string returned or the exception raised.
Returned(r) ==
  /\ raised = r.raised
  /\ query = IF r.raised = "none" THEN r.value ELSE <<>>

\* What the seven commands without client-side checks give for the bare names.
ByName ==
  CASE called.op = "select" -> select(AsName(called.args[1]), called.args[2])
    [] called.op = "where" -> where(AsName(called.args[1]), called.args[2])
    [] called.op = "subset" -> subset(AsName(called.args[1]), called.args[2])
    [] called.op = "derive" ->
         derive(AsName(called.args[1]), called.args[2], called.args[3])
    [] called.op = "cross" -> cross(AsName(called.args[1]), AsName(called.args[2]))
    [] called.op = "dim_join" ->
         dim_join(AsName(called.args[1]), AsName(called.args[2]), called.args[3])
    [] called.op = "aggregate" -> aggregate(AsName(called.args[1]), called.args[2])
    [] called.op = "register_model" ->
         register_model(called.args[1], AsName(called.args[2]), called.args[3],
                        called.args[4])

CommandsTakingATar ==
  {"select", "where", "subset", "derive", "cross", "dim_join", "aggregate",
   "register_model"}

C14_AbsentFromTar ==
  LET model_tar == called.args[2]
      dim_specification == called.args[4]
  IN \/ \E i \in 1..Len(dim_specification) :
          get_tar_dimension_name(dim_specification[i][1])
            \notin names_of(model_tar.dimension_specification)
     \/ get_tar_attribute_name(called.args[3])
          \notin names_of(model_tar.attribute_specification)

DenseCall ==
  \/ called.op = "DataVariableBlockToXarrayDataset"
  \/ called.op = "DataVariableBlockConverter.__call__" /\ element.target_type = "xarray"

BlockRows(block) == Len(block.dims.items[1][2].data)

\* Dimension and attribute arrays have one row count.
RowsAgree(block) ==
  \A j \in 1..Len(block.attrs.items) : block.attrs.items[j][2].shape[1] = BlockRows(block)

\* The coordinate tuple of row r.
CoordinateAt(block, r) == [d \in 1..Len(block.dims.items) |-> block.dims.items[d][2].data[r]]

DimValues(block, d) ==
  {block.dims.items[d][2].data[r] : r \in 1..BlockRows(block)}

\* The rank of row r's coordinate among the distinct values of each dimension.
RankAt(block, r) ==
  [d \in 1..Len(block.dims.items) |->
     Cardinality({w \in DimValues(block, d) : w < block.dims.items[d][2].data[r]})]

DistinctCoordinates(block) ==
  \A r, q \in 1..BlockRows(block) : r # q => CoordinateAt(block, r) # CoordinateAt(block, q)

\* The j-th DataArray of the converted Dataset.
DenseOf(j) == converted.data_vars[j][2]

\* The axes of the j-th DataArray that stand for the block's dimensions: one
\* per dimension, labelled by its distinct values in ascending order.
DenseAxesAreDistinctValues(block, j) ==
  /\ SubSeq(DenseOf(j).dims, 1, Len(block.dims.items)) =
       [d \in 1..Len(block.dims.items) |-> block.dims.items[d][1]]
  /\ \A d \in 1..Len(block.dims.items) :
       LET labels == DenseOf(j).coords[d]
       IN /\ Len(labels) = Cardinality(DimValues(block, d))
          /\ {labels[i] : i \in 1..Len(labels)} = DimValues(block, d)
          /\ \A i \in 1..(Len(labels) - 1) : labels[i] < labels[i + 1]

(***************************************************************************)
(* C15: the dense conversion of a block whose coordinate tuples are        *)
(* pairwise distinct succeeds, and for every single-column attribute the   *)
(* dense array has one axis per dimension, labelled by the dimension's     *)
(* distinct values in ascending order; the cell at the ranks of row r's    *)
(* coordinates holds the attribute value of row r with mask True, and      *)
(* every cell no row addresses has mask False.                             *)
(***************************************************************************)
C15_DenseCellsOfDistinctRows ==
  DenseCall /\ RowsAgree(called.args[1]) /\ DistinctCoordinates(called.args[1]) =>
    LET block == called.args[1]
    IN /\ raised = "none"
       /\ converted.cls = "Dataset"
       /\ Len(converted.data_vars) = Len(block.attrs.items)
       /\ \A j \in 1..Len(block.attrs.items) :
            ~is_a_matrix(block.attrs.items[j][2]) =>
              /\ converted.data_vars[j][1] = block.attrs.items[j][1]
              /\ DenseOf(j).dims = [d \in 1..Len(block.dims.items) |-> block.dims.items[d][1]]
              /\ DenseAxesAreDistinctValues(block, j)
              /\ DOMAIN DenseOf(j).values =
                   Cells([d \in 1..Len(block.dims.items) |->
                            Cardinality(DimValues(block, d))])
              /\ \A r \in 1..BlockRows(block) :
                   /\ DenseOf(j).values[RankAt(block, r)] = block.attrs.items[j][2].data[r]
                   /\ DenseOf(j).mask[RankAt(block, r)]
              /\ \A cell \in DOMAIN DenseOf(j).mask :
                   (\A r \in 1..BlockRows(block) : RankAt(block, r) # cell) =>
                     ~DenseOf(j).mask[cell]

\* Three of the four coordinate pairs: the cell of the fourth is masked out.
C15_Witness ==
  /\ called.op = "DataVariableBlockToXarrayDataset"
  /\ raised = "none"
  /\ called.args[1].dims = OrderedDict(<< <<"x", column_of(<<0, 0, 1>>)>>,
                                          <<"y", column_of(<<0, 1, 0>>)>> >>)
  /\ called.args[1].attrs = OrderedDict(<< <<"v", vector_of(3)>> >>)
  /\ DenseOf(1).values[<<0, 0>>] = 10
  /\ DenseOf(1).values[<<0, 1>>] = 20
  /\ DenseOf(1).values[<<1, 0>>] = 30
  /\ DenseOf(1).mask = (<<0, 0>> :> TRUE @@ <<0, 1>> :> TRUE @@ <<1, 0>> :> TRUE
                          @@ <<1, 1>> :> FALSE)

\* The last row, in input order, with the coordinate tuple of row r.
LastRowAt(block, r) ==
  CHOOSE q \in 1..BlockRows(block) :
    /\ CoordinateAt(block, q) = CoordinateAt(block, r)
    /\ \A p \in 1..BlockRows(block) : CoordinateAt(block, p) = CoordinateAt(block, r) => p <= q

(***************************************************************************)
(* C16: the dense conversion of a block in which a coordinate tuple may    *)
(* occur in several rows raises nothing, and for every single-column       *)
(* attribute the cell of a coordinate tuple holds the attribute value of   *)
(* the last row with that tuple, with mask True.                           *)
(***************************************************************************)
C16_LastRowWins ==
  DenseCall /\ RowsAgree(called.args[1]) =>
    LET block == called.args[1]
    IN /\ raised = "none"
       /\ \A j \in 1..Len(block.attrs.items) :
            ~is_a_matrix(block.attrs.items[j][2]) =>
              \A r \in 1..BlockRows(block) :
                /\ DenseOf(j).values[RankAt(block, r)] =
                     block.attrs.items[j][2].data[LastRowAt(block, r)]
                /\ DenseOf(j).mask[RankAt(block, r)]

\* x = [0, 0] with v = [10, 20]: the one cell holds 20.
C16_Witness ==
  /\ called.op = "DataVariableBlockToXarrayDataset"
  /\ raised = "none"
  /\ called.args[1].dims = OrderedDict(<< <<"x", column_of(<<0, 0>>)>> >>)
  /\ called.args[1].attrs = OrderedDict(<< <<"v", vector_of(2)>> >>)
  /\ DenseOf(1).values = (<<0>> :> 20)
  /\ DenseOf(1).mask = (<<0>> :> TRUE)

BlockDimNames(block) == [d \in 1..Len(block.dims.items) |-> block.dims.items[d][1]]

\* The extents of the axes that stand for the block's dimensions.
BlockDenseShape(block) ==
  [d \in 1..Len(block.dims.items) |-> Cardinality(DimValues(block, d))]

FrameCall ==
  \/ called.op = "DataVariableBlockToPandasDataFrame"
  \/ called.op = "DataVariableBlockConverter.__call__" /\ element.target_type = "pandas"

\* The key of row i of a frame: the label, or the tuple of the levels' labels.
RowKey(frame, i) ==
  IF frame.index.cls = "Index" THEN <<frame.index.labels[i]>>
  ELSE [l \in 1..Len(frame.index.arrays) |-> frame.index.arrays[l][i]]

\* The key of column p of a frame: a name alone, or a (name, column) pair.
ColumnKey(frame, p) ==
  IF frame.columns.cls = "Index" THEN PyStr(frame.columns.labels[p])
  ELSE PyTuple(<<frame.columns.arrays[1][p], frame.columns.arrays[2][p]>>)

ColumnsOf(attr_array) == IF Len(attr_array.shape) = 1 THEN 1 ELSE attr_array.shape[2]

\* The number of frame columns before those of the j-th attribute.
RECURSIVE ColumnsBefore(_, _)
ColumnsBefore(block, j) ==
  IF j = 1 THEN 0
  ELSE ColumnsBefore(block, j - 1) + ColumnsOf(block.attrs.items[j - 1][2])

HasMultiColumnAttribute(block) ==
  \E j \in 1..Len(block.attrs.items) : ColumnsOf(block.attrs.items[j][2]) > 1

\* One row per block row in input order, keyed by the row's dimension values
\* under the dimensions' names, a single index for one dimension.
FrameRowsAsBlockRows(block, frame) ==
  /\ Index_len(frame.index) = BlockRows(block)
  /\ (frame.index.cls = "Index") = (Len(block.dims.items) = 1)
  /\ IF frame.index.cls = "Index"
     THEN frame.index.name = PyStr(block.dims.items[1][1])
     ELSE frame.index.names = [d \in 1..Len(block.dims.items) |-> PyStr(block.dims.items[d][1])]
  /\ \A i \in 1..BlockRows(block) : RowKey(frame, i) = CoordinateAt(block, i)

\* The columns of the j-th attribute hold its values, row by row.
FrameHoldsAttribute(block, frame, j) ==
  LET attr_array == block.attrs.items[j][2]
      C == ColumnsOf(attr_array)
      W == Index_len(frame.columns)
  IN \A i \in 1..BlockRows(block), c \in 1..C :
       frame.values.data[(i - 1) * W + ColumnsBefore(block, j) + c] =
         attr_array.data[(i - 1) * C + c]

(***************************************************************************)
(* C18 as stated: the frame of a block has one row per block row in input  *)
(* order, keyed by the row's dimension values; a single-column attribute   *)
(* is one column keyed by the attribute name alone and a C-column          *)
(* attribute is C columns keyed (attribute name, 0..C-1), in attribute     *)
(* order and holding the source values.                                    *)
(***************************************************************************)
C18_SingleColumnNamedAlone ==
  FrameCall /\ RowsAgree(called.args[1]) =>
    LET block == called.args[1]
    IN /\ raised = "none"
       /\ converted.cls = "DataFrame"
       /\ FrameRowsAsBlockRows(block, converted)
       /\ \A j \in 1..Len(block.attrs.items) :
            LET C == ColumnsOf(block.attrs.items[j][2])
                name == block.attrs.items[j][1]
            IN /\ FrameHoldsAttribute(block, converted, j)
               /\ IF C = 1
                  THEN ColumnKey(converted, ColumnsBefore(block, j) + 1) = PyStr(name)
                  ELSE \A c \in 1..C :
                         ColumnKey(converted, ColumnsBefore(block, j) + c) =
                           PyTuple(<<name, c - 1>>)

(***************************************************************************)
(* C18 amended: as above, except that the key of a single-column attribute *)
(* is the attribute name alone only when no attribute of the block has     *)
(* several columns; when one has, every column key is a pair and the       *)
(* single-column attribute is keyed (attribute name, 0).                   *)
(***************************************************************************)
C18_SingleColumnPairedInCompositeIndex ==
  FrameCall /\ RowsAgree(called.args[1]) =>
    LET block == called.args[1]
    IN /\ raised = "none"
       /\ converted.cls = "DataFrame"
       /\ FrameRowsAsBlockRows(block, converted)
       /\ Index_len(converted.columns) =
            ColumnsBefore(block, Len(block.attrs.items) + 1)
       /\ \A j \in 1..Len(block.attrs.items) :
            LET C == ColumnsOf(block.attrs.items[j][2])
                name == block.attrs.items[j][1]
            IN /\ FrameHoldsAttribute(block, converted, j)
               /\ IF C = 1
                  THEN ColumnKey(converted, ColumnsBefore(block, j) + 1) =
                         IF HasMultiColumnAttribute(block) THEN PyTuple(<<name, 0>>)
                         ELSE PyStr(name)
                  ELSE \A c \in 1..C :
                         ColumnKey(converted, ColumnsBefore(block, j) + c) =
                           PyTuple(<<name, c - 1>>)

\* A single-column attribute before one of two columns, rows not sorted.
C18_Witness ==
  /\ called.op = "DataVariableBlockToPandasDataFrame"
  /\ raised = "none"
  /\ called.args[1].dims = OrderedDict(<< <<"x", column_of(<<1, 0>>)>>,
                                          <<"y", column_of(<<0, 0>>)>> >>)
  /\ called.args[1].attrs = OrderedDict(<< <<"v", vector_of(2)>>, <<"m", matrix_of(2)>> >>)
  /\ RowKey(converted, 1) = <<1, 0>>
  /\ RowKey(converted, 2) = <<0, 0>>
  /\ ColumnKey(converted, 1) = PyTuple(<<"v", 0>>)
  /\ ColumnKey(converted, 2) = PyTuple(<<"m", 0>>)
  /\ ColumnKey(converted, 3) = PyTuple(<<"m", 1>>)
  /\ converted.values.data = <<10, 100, 101, 20, 200, 201>>

(***************************************************************************)
(* C19: converting a frame whose row index is a single named level returns *)
(* a block with exactly one dimension, named after the level, whose array  *)
(* is the index values in row order; with the level unnamed the conversion *)
(* fails with an AssertionError.                                           *)
(***************************************************************************)
C19_SingleLevelIndexToOneDimension ==
  called.op = "PandasDataFrameToDataVariableBlock" /\ called.args[1].index.cls = "Index" =>
    LET index == called.args[1].index
    IN IF index.name = NoneVal THEN raised = "AssertionError"
       ELSE /\ raised = "none"
            /\ converted.cls = "DataVariableBlock"
            /\ Len(converted.dims.items) = 1
            /\ converted.dims.items[1][1] = index.name.value
            /\ converted.dims.items[1][2].data = index.labels

(***************************************************************************)
(* C20: constructing a DataVariableBlockConverter with a tag that is not   *)
(* 'pandas' or 'xarray' raises a KeyError whose argument is the tag and    *)
(* leaves no converter; a converter built with 'pandas' returns, or        *)
(* raises, on every call what the frame converter does on the block, one   *)
(* built with 'xarray' what the dense converter does; and the registry     *)
(* holds the same two converters in every state.                           *)
(***************************************************************************)
C20_DispatchByRegistry ==
  /\ available_converters = [pandas |-> "DataVariableBlockToPandasDataFrame",
                             xarray |-> "DataVariableBlockToXarrayDataset"]
  /\ called.op = "DataVariableBlockConverter" =>
       IF called.args[1] \in {"pandas", "xarray"}
       THEN /\ raised = "none"
            /\ element.cls = "DataVariableBlockConverter"
            /\ element.target_type = called.args[1]
       ELSE /\ raised = "KeyError"
            /\ raised_args = <<called.args[1]>>
            /\ element = NoneVal
  /\ called.op = "DataVariableBlockConverter.__call__" =>
       LET block == called.args[1]
           results ==
             IF element.target_type = "pandas"
             THEN {DataVariableBlockToPandasDataFrame_call(block)}
             ELSE {DataVariableBlockToXarrayDataset_call(block, unsets) :
                     unsets \in UnsetsFrom(block, 1)}
       IN /\ element.target_type \in {"pandas", "xarray"}
          /\ \E r \in results :
               /\ raised = r.raised
               /\ r.raised = "none" => converted = r.value

\* The tag 'numpy' is not registered.
C20_Witness ==
  /\ called.op = "DataVariableBlockConverter"
  /\ called.args = <<"numpy">>
  /\ raised = "KeyError"
  /\ raised_args = <<"numpy">>
  /\ element = NoneVal

(***************************************************************************)
(* Reading a register_model call.                                          *)
(***************************************************************************)
NameOfRef(ref) == IF ref.cls = "str" THEN ref.value ELSE ref.name

\* The pairs of dim_specification from the i-th on, as name-size joined by '|'.
RECURSIVE PairsJoined(_, _)
PairsJoined(dim_specification, i) ==
  IF i > Len(dim_specification) THEN <<>>
  ELSE (IF i > 1 THEN <<"|">> ELSE <<>>)
         \o <<NameOfRef(dim_specification[i][1]), "-", int_str(dim_specification[i][2])>>
         \o PairsJoined(dim_specification, i + 1)

\* A Tar is given and a dimension of dim_specification or the input
\* attribute is not one of its own.
RegisterModelRefusedByTar ==
  /\ called.args[2].cls = "Tar"
  /\ \/ \E i \in 1..Len(called.args[4]) :
          \A d \in 1..Len(called.args[2].dimension_specification) :
            called.args[2].dimension_specification[d].name # NameOfRef(called.args[4][i][1])
     \/ \A a \in 1..Len(called.args[2].attribute_specification) :
          called.args[2].attribute_specification[a].name # NameOfRef(called.args[3])

\* The command returned lists the pairs in its last field.
RegisterModelReturned ==
  /\ raised = "none"
  /\ query = <<"REGISTER_MODEL", "(", called.args[1], ",", " ", NameOfRef(called.args[2]),
               ",", " ", NameOfRef(called.args[3]), ",", " ", "\"">>
               \o PairsJoined(called.args[4], 1) \o <<"\"", ")">>

(***************************************************************************)
(* C26 as stated: register_model with a Tar fails and returns no command   *)
(* when a dimension of dim_specification or the input attribute is not the *)
(* Tar's; in every other case, and always with a bare string, it returns   *)
(* the REGISTER_MODEL command whose last field lists the pairs as          *)
(* name-size joined by '|' in the order of dim_specification.              *)
(***************************************************************************)
C26_RegisterModelChecksTar ==
  called.op = "register_model" =>
    IF RegisterModelRefusedByTar THEN raised # "none" /\ query = <<>>
    ELSE RegisterModelReturned

(***************************************************************************)
(* C26 amended: the same for a dim_specification of at least one pair; an  *)
(* empty dim_specification fails with a ValueError and returns no command, *)
(* whether model_tar is a Tar or a bare string.                            *)
(***************************************************************************)
C26_RegisterModelChecksTarGivenPairs ==
  called.op = "register_model" =>
    IF called.args[4] = <<>> THEN raised = "ValueError" /\ query = <<>>
    ELSE IF RegisterModelRefusedByTar THEN raised = "AssertionError" /\ query = <<>>
    ELSE RegisterModelReturned

\* The Tar has the dimension x but no attribute c.
C26_Witness ==
  /\ called.op = "register_model"
  /\ called.args[2].cls = "Tar"
  /\ called.args[3] = PyStr("c")
  /\ called.args[4] = << <<PyStr("x"), 2>> >>
  /\ raised = "AssertionError"
  /\ query = <<>>

(***************************************************************************)
(* Reading a concatenation.                                                *)
(***************************************************************************)
KeySet(mapping) == {mapping.items[k][1] : k \in 1..Len(mapping.items)}

ArrayOf(mapping, key) ==
  mapping.items[CHOOSE k \in 1..Len(mapping.items) : mapping.items[k][1] = key][2]

\* The dimension mappings (TRUE) or the attribute mappings (FALSE) of blocks.
MappingsOf(blocks, dimensions) ==
  [b \in 1..Len(blocks) |-> IF dimensions THEN blocks[b].dims ELSE blocks[b].attrs]

SameNameSets(blocks) ==
  \A b \in 1..Len(blocks) :
    /\ KeySet(blocks[b].dims) = KeySet(blocks[1].dims)
    /\ KeySet(blocks[b].attrs) = KeySet(blocks[1].attrs)

\* The arrays of a key in all the mappings, from the b-th on, row after row.
RECURSIVE RowsJoined(_, _, _)
RowsJoined(mappings, key, b) ==
  IF b > Len(mappings) THEN <<>>
  ELSE ArrayOf(mappings[b], key).data \o RowsJoined(mappings, key, b + 1)

RECURSIVE RowsSummed(_, _, _)
RowsSummed(mappings, key, b) ==
  IF b > Len(mappings) THEN 0
  ELSE ArrayOf(mappings[b], key).shape[1] + RowsSummed(mappings, key, b + 1)

\* The result holds, under every key and in the first block's key order, the
\* row-wise concatenation of the key's arrays in block order.
ConcatenatedByKey(result, mappings) ==
  /\ [k \in 1..Len(result.items) |-> result.items[k][1]]
       = [k \in 1..Len(mappings[1].items) |-> mappings[1].items[k][1]]
  /\ \A key \in KeySet(mappings[1]) :
       /\ ArrayOf(result, key).data = RowsJoined(mappings, key, 1)
       /\ ArrayOf(result, key).shape[1] = RowsSummed(mappings, key, 1)
       /\ Tail(ArrayOf(result, key).shape) = Tail(ArrayOf(mappings[1], key).shape)

ConcatenationReturned ==
  /\ raised = "none"
  /\ converted.cls = "DataVariableBlock"
  /\ ConcatenatedByKey(converted.dims, MappingsOf(called.args[1], TRUE))
  /\ ConcatenatedByKey(converted.attrs, MappingsOf(called.args[1], FALSE))
  /\ Len(called.args[1]) = 1 => converted = called.args[1][1]

\* What concatenate needs of mappings with one key set: a key at all, arrays
\* of one rank at every position, and arrays of one width under every key.
MappingsJoin(mappings) ==
  /\ mappings[1].items # <<>>
  /\ \A b \in 1..Len(mappings), k \in 1..Len(mappings[1].items) :
       Len(mappings[b].items[k][2].shape) = Len(mappings[1].items[k][2].shape)
  /\ \A b \in 1..Len(mappings), key \in KeySet(mappings[1]) :
       Tail(ArrayOf(mappings[b], key).shape) = Tail(ArrayOf(mappings[1], key).shape)

C27_SameNamesInAnotherOrderRefused ==
  called.op = "DataVariableBlockOps.concatenate" /\ Len(called.args[1]) = 2 =>
    LET blocks == called.args[1]
        reordered(mappings) ==
          /\ KeySet(mappings[1]) = KeySet(mappings[2])
          /\ [k \in 1..Len(mappings[1].items) |-> mappings[1].items[k][1]]
               # [k \in 1..Len(mappings[2].items) |-> mappings[2].items[k][1]]
    IN reordered(MappingsOf(blocks, TRUE)) \/ reordered(MappingsOf(blocks, FALSE)) =>
         raised = "AssertionError" /\ converted = NoneVal

\* The row counts of the arrays of a mapping.
RowCounts(mapping) == {mapping.items[k][2].shape[1] : k \in 1..Len(mapping.items)}

(***************************************************************************)
(* C22: every DataVariableBlock that was constructed, from DataVariables   *)
(* or from a dims and an attrs mapping, has one row count for all of its   *)
(* dimension and attribute arrays; a construction with dimension arrays    *)
(* and attribute arrays of different row counts raises on both paths.      *)
(***************************************************************************)
C22_OneRowCountPerBlock ==
  /\ element.cls = "DataVariableBlock" =>
       Cardinality(RowCounts(element.dims) \cup RowCounts(element.attrs)) = 1
  /\ called.op = "DataVariableBlock" =>
       (RowCounts(called.args[1]) # RowCounts(called.args[2]) => raised # "none")
  /\ called.op = "DataVariableBlock(data_variables)" =>
       (Cardinality({called.args[1][i].array.shape[1] : i \in 1..Len(called.args[1])}) > 1
          => raised # "none")

(***************************************************************************)
(* C23: constructing a DataVariable with is_dimension true and an array of *)
(* more than one column raises and leaves no DataVariable.                 *)
(***************************************************************************)
C23_DimensionVariableHasOneColumn ==
  /\ called.op = "DataVariable"
  /\ called.args[3]
  /\ Len(called.args[2].shape) >= 2
  /\ called.args[2].shape[Len(called.args[2].shape)] > 1
  => raised # "none" /\ element = NoneVal

(***************************************************************************)
(* C24: after a block was converted to a frame or to a dense dataset, the  *)
(* block is what it was before the call: the same names in the same order  *)
(* and arrays with the same values and the same shape.                     *)
(***************************************************************************)
C24_ConvertingLeavesTheBlock ==
  called.op \in {"DataVariableBlockToPandasDataFrame", "DataVariableBlockToXarrayDataset"} =>
    /\ dict_keys(element.dims) = dict_keys(called.args[1].dims)
    /\ dict_keys(element.attrs) = dict_keys(called.args[1].attrs)
    /\ \A k \in 1..Len(element.dims.items) :
         element.dims.items[k][2] = called.args[1].dims.items[k][2]
    /\ \A k \in 1..Len(element.attrs.items) :
         /\ element.attrs.items[k][2].data = called.args[1].attrs.items[k][2].data
         /\ element.attrs.items[k][2].shape = called.args[1].attrs.items[k][2].shape

(***************************************************************************)
(* C29: a block of two dimensions or more that was converted to a frame,   *)
(* and the frame back to a block, comes back without an error with the     *)
(* same dimension names in the same order, dimension arrays holding the    *)
(* original coordinate values row by row, and the same attribute names     *)
(* with the same values.                                                   *)
(***************************************************************************)
C29_FrameRoundTrip ==
  /\ called.op = "PandasDataFrameToDataVariableBlock"
  /\ element.cls = "DataVariableBlock"
  /\ Len(element.dims.items) >= 2
  => /\ raised = "none"
     /\ converted.cls = "DataVariableBlock"
     /\ dict_keys(converted.dims) = dict_keys(element.dims)
     /\ \A d \in 1..Len(element.dims.items) :
          converted.dims.items[d][2].data = element.dims.items[d][2].data
     /\ dict_keys(converted.attrs) = dict_keys(element.attrs)
     /\ \A k \in 1..Len(element.attrs.items) :
          converted.attrs.items[k][2].data = element.attrs.items[k][2].data

(***************************************************************************)
(* The command runner and the dataset written from an array.               *)
(***************************************************************************)
RunnerOps ==
  {"CommandRunner.create", "CommandRunner.load", "CommandRunner.drop_tar",
   "CommandRunner.drop_dataset", "CommandRunner.drop_type",
   "CommandRunner.register_model", "CommandRunner.predict"}

\* A step that is a runner method called as documented: drop_type(name) with the
\* name alone.
RunnerCalledAsDocumented ==
  /\ called'.op \in RunnerOps
  /\ called'.op = "CommandRunner.drop_type" => Len(called'.args) = 1

\* The text a drop method has to submit for the name it was given.
DropText(op, name) ==
  <<(IF op = "CommandRunner.drop_tar" THEN "DROP_TAR"
     ELSE IF op = "CommandRunner.drop_dataset" THEN "DROP_DATASET" ELSE "DROP_TYPE"),
    "(", "\"", name, "\"", ")", ";">>

\* The step submitted exactly one command to execute and returned execute's answer.
SubmittedOneAndReturnedIt ==
  /\ raised' = "none"
  /\ Len(effects') = Len(effects) + 1
  /\ SubSeq(effects', 1, Len(effects)) = effects
  /\ effects'[Len(effects')].kind = "execute"
  /\ converted' = effects'[Len(effects')].response

\* C25: every runner operation (create, load, drop_tar, drop_dataset, drop_type,
\* register_model, predict) called once on a runner with its documented arguments
\* submits exactly one command to execute and returns that call's result; drop_tar,
\* drop_dataset and drop_type submit DROP_TAR("name");, DROP_DATASET("name"); and
\* DROP_TYPE("name");.
C25_RunnerSubmitsOneCommand ==
  [][RunnerCalledAsDocumented =>
       /\ SubmittedOneAndReturnedIt
       /\ called'.op \in {"CommandRunner.drop_tar", "CommandRunner.drop_dataset",
                          "CommandRunner.drop_type"}
            => effects'[Len(effects')].command = DropText(called'.op, called'.args[1].value)]_vars

\* Whether directory path dir is root or lies below it, component by component.
LiesUnder(dir, root) ==
  LET trimmed(p) == IF p # <<>> /\ p[Len(p)] = "/" THEN SubSeq(p, 1, Len(p) - 1) ELSE p
  IN \/ trimmed(dir) = trimmed(root)
     \/ startswith(dir, trimmed(root) \o <<"/">>)

\* C30: for every compatible array of rank at most 2, numpy_array_to_savime_dataset
\* returns a FileDataset with 1 column for a rank-1 array and the array's number of
\* columns for a rank-2 array, flagged as in storage exactly when the dataset
\* directory lies under the storage directory, and submits exactly one create, of
\* that dataset, through the client.
C30_DatasetOfArray ==
  [][(called'.op = "numpy_array_to_savime_dataset" /\ Len(called'.args[1].shape) <= 2) =>
       LET array == called'.args[1]
           submitted == SubSeq(effects', Len(effects) + 1, Len(effects'))
           creates == {i \in 1..Len(submitted) : submitted[i].kind = "create"}
       IN /\ raised' = "none"
          /\ converted'.cls = "FileDataset"
          /\ converted'.num_columns = (IF Len(array.shape) = 1 THEN 1 ELSE array.shape[2])
          /\ converted'.is_in_savime_storage
               = LiesUnder(called'.args[4].value, called'.args[5].value)
          /\ Cardinality(creates) = 1
          /\ \A i \in creates : submitted[i].element = converted']_vars

(***************************************************************************)
(* The random slices of an array's index space.                            *)
(***************************************************************************)
\* The product of a sequence of integers.
RECURSIVE prod(_)
prod(s) == IF s = <<>> THEN 1 ELSE Head(s) * prod(Tail(s))

\* A call the statement is about: every dimension has length at least 3 and every
\* dimension is allowed at least one piece, with one entry per dimension.
SplitterCallInScope ==
  /\ splitter.cls = "get_random_slices"
  /\ Len(splitter.max_inner_cuts) = Len(splitter.shape)
  /\ \A i \in 1..Len(splitter.shape) :
       splitter.shape[i] >= 3 /\ splitter.max_inner_cuts[i] >= 1

\* The call has returned, and what it returned is a non-empty list of at most
\* prod(max_inner_cuts) elements with one slice per dimension each.
SplitterReturned == Running("done")

ReturnedListInShape ==
  /\ 0 < Len(splitter.result)
  /\ Len(splitter.result) <= prod(splitter.max_inner_cuts)
  /\ \A i \in 1..Len(splitter.result) : Len(splitter.result[i]) = Len(splitter.shape)

\* C28 as stated: a call in scope terminates and returns such a list, and from the
\* first push to the return the queue is never empty.
C28_SlicesReturnedQueueNeverEmpty ==
  /\ [](SplitterCallInScope =>
          /\ raised = "none"
          /\ splitter.looping => ~Queue_empty(splitter.q)
          /\ SplitterReturned => ReturnedListInShape)
  /\ (SplitterCallInScope ~> SplitterReturned)

\* C28 (amended): for every shape whose dimensions all have length at least 3 and
\* every max_inner_cuts of at least 1, get_random_slices terminates without an
\* exception and returns a list l with 0 < len(l) <= prod(max_inner_cuts) whose
\* elements all have len(shape) slices, none partially built; the queue is not empty
\* whenever the loop reads its front.  (Between q.pop() and the pushes of the next
\* dimension's slices a queue that held one element is empty.)
C28_SlicesReturnedFrontNeverMissing ==
  /\ [](SplitterCallInScope =>
          /\ raised = "none"
          /\ Running("front") => ~Queue_empty(splitter.q)
          /\ SplitterReturned => ReturnedListInShape)
  /\ (SplitterCallInScope ~> SplitterReturned)

\* A call in scope on an array of rank 2 or more has returned several elements,
\* after drawing a cut.
C28_Witness ==
  /\ SplitterCallInScope
  /\ SplitterReturned
  /\ Len(splitter.shape) >= 2
  /\ Len(splitter.result) >= 3
  /\ \E i \in 1..Len(splitter.result) : splitter.result[i][2][1] > 0

====
